---- MODULE Spec2Model ----
(***************************************************************************)
(* A model of aiodnsprox, a datagram DNS proxy: the upstream client        *)
(* (dns_upstream.DNSUpstream), the query-dispatch mixin                    *)
(* (dns_upstream.DNSUpstreamServerMixin) with the UDP server and the CoAP  *)
(* resource as its hosts, and the tinydtls wrapper (dtls.TinyDTLSWrapper). *)
(*                                                                         *)
(* Python's None is the empty tuple <<>> and a present value x is <<x>>    *)
(* wherever a field is optional.  Times are whole seconds.                 *)
(***************************************************************************)
EXTENDS Integers, Sequences, FiniteSets, TLC

VARIABLES
    uq,               \* one DNSUpstream.query call: its arguments and its outcome
    tasks,            \* dispatch tasks created by dns_query_received, in arrival order
    ready,            \* the event loop's FIFO of tasks whose upstream await has resolved
    completed,        \* task indices in the order their upstream queries resolved
    delivered,        \* the send_response_to_requester calls, in call order
    pending,          \* _InnerDNSUpstream._pending_responses: query bytes -> future
    futures,          \* every asyncio.Future created by dns_response
    handlers,         \* the CoAP request handlers (render_* coroutines)
    task_errors,      \* exceptions raised inside dispatch tasks
    active_sessions,  \* TinyDTLSWrapper._active_sessions: peer address -> session
    app_data,         \* TinyDTLSWrapper._app_data
    last_event,       \* TinyDTLSWrapper._last_event
    last_op,          \* the most recent wrapper operation, its argument and its return
    engine_writes,    \* calls of the engine's write(session, msg)
    sendto,           \* datagrams handed to transport.sendto by _write
    server,           \* the variant of the server handle: "udp", "dtls" or "coap"
    self_transport,   \* the UDP or DTLS server's self.transport
    wrapper,          \* the DTLS server's self._dtls
    request_interfaces, \* the CoAP context's request_interfaces
    closes,           \* how many close() calls on the server handle have completed
    io,               \* transport, session and context calls of the latest server operation
    server_op,        \* the latest operation on the server handle and what it raised
    config,           \* the sections of the Config singleton
    created,          \* the latest create_server call and its outcome
    mock,             \* the latest MockDNSUpstream.query call and its outcome
    built,            \* the latest DNSUpstream(...) construction and its outcome
    instances,        \* _Singleton._instances: class -> its one instance
    objects,          \* the Config objects ever constructed: their _sections
    refs,             \* the references Config() calls have returned to callers
    servers,          \* cli.proxy.servers, the process-wide server list
    main,             \* the latest run of cli.proxy.main and how it ended
    written,          \* the latest call of the engine's write callback
    decoded,          \* the latest GET of an encoded byte string and what it decoded
    shutdown          \* the run of cli.proxy.close_servers, and the close() calls

vars == <<uq, tasks, ready, completed, delivered, pending, futures, handlers,
          task_errors, active_sessions, app_data, last_event, last_op,
          engine_writes, sendto, server, self_transport, wrapper, request_interfaces,
          closes, io, server_op, config, created, mock, built, instances,
          objects, refs, servers, main, written,
          decoded, shutdown>>

upstreamVars == <<uq>>
dispatchVars == <<tasks, ready, completed, delivered, task_errors>>
coapVars == <<pending, futures, handlers>>
dtlsVars == <<active_sessions, app_data, last_event, last_op, engine_writes, sendto>>
hostVars == <<server, self_transport, wrapper, request_interfaces, closes, io, server_op>>
factoryVars == <<config, created>>
mockVars == <<mock, built>>
singletonVars == <<instances, objects, refs>>
mainVars == <<servers, main>>
callbackVars == <<written, decoded>>
shutdownVars == <<shutdown>>
procVars == <<mockVars, singletonVars, mainVars, callbackVars, shutdownVars>>

None == <<>>
Some(x) == <<x>>

Min(a, b) == IF a <= b THEN a ELSE b

\* An empty Python dict
EmptyDict == [k \in {} |-> None]

(***************************************************************************)
(* DNS messages and their wire form                                        *)
(***************************************************************************)

\* rcode values of dns.rcode
NOERROR == 0
SERVFAIL == 2

\* rdata classes and types of the questions the model draws
Questions == { [name |-> "example.org", rdclass |-> "IN", rdtype |-> "AAAA"],
               [name |-> "example.org", rdclass |-> "IN", rdtype |-> "A"] }

\* dns.message.Message.to_wire: the 16-bit id as two bytes, the flags word as
\* two bytes (QR is the top bit and RD the bottom bit of the first, RA the top
\* bit of the second, whose low four bits are the rcode), then the sections.
to_wire(msg) ==
    << msg.id \div 256, msg.id % 256,
       (IF msg.qr THEN 128 ELSE 0) + (IF msg.rd THEN 1 ELSE 0),
       (IF msg.ra THEN 128 ELSE 0) + msg.rcode,
       msg.question, msg.answer >>

\* dns.message.from_wire: the inverse parse of the same layout.
from_wire(wire) ==
    [ id |-> wire[1] * 256 + wire[2],
      qr |-> wire[3] \div 128 = 1,
      rd |-> wire[3] % 2 = 1,
      ra |-> wire[4] \div 128 = 1,
      rcode |-> wire[4] % 16,
      question |-> wire[5],
      answer |-> wire[6] ]

\* dns.message.make_query: a query with the RD flag as given.
make_query(id, rd, question) ==
    [ id |-> id, qr |-> FALSE, rd |-> rd, ra |-> FALSE, rcode |-> NOERROR,
      question |-> <<question>>, answer |-> <<>> ]

\* dns.message.make_response(query, recursion_available): same id, QR set, RD
\* copied from the query, RA as asked, the question section copied.
make_response(query, recursion_available) ==
    [ id |-> query.id, qr |-> TRUE, rd |-> query.rd, ra |-> recursion_available,
      rcode |-> NOERROR, question |-> query.question, answer |-> <<>> ]

(***************************************************************************)
(* DNSUpstream                                                             *)
(***************************************************************************)

DNSTransport == {"UDP", "UDP_TCP_FALLBACK", "TCP"}

DEFAULT_LIFETIME == 5
DEFAULT_TIMEOUT == 2

\* The ways one call of the library's query routine can end: a response the
\* library accepted, a dns.exception.DNSException (Timeout included), or a
\* ConnectionRefusedError.
AttemptKinds == {"answer", "DNSException", "ConnectionRefusedError"}

\* A _compute_timeout that hands out DEFAULT_TIMEOUT whatever is left of the
\* lifetime.
_compute_timeout_flat(start, lifetime, now) ==
    LET lt == IF lifetime = None THEN DEFAULT_LIFETIME ELSE lifetime[1]
        duration == now - start
    IN  IF duration < -1 \/ duration >= lt
            THEN [raised |-> "Timeout", timeout |-> None]
        ELSE [raised |-> "", timeout |-> Some(DEFAULT_TIMEOUT)]

\* DNSUpstream._compute_timeout(start, lifetime) with time.time() reading now.
\* A small negative duration resets now but leaves duration as computed.
_compute_timeout(start, lifetime, now) ==
    LET lt == IF lifetime = None THEN DEFAULT_LIFETIME ELSE lifetime[1]
        duration == now - start
    IN  IF duration < 0 /\ duration < -1
            THEN [raised |-> "Timeout", timeout |-> None]
        ELSE IF duration >= lt
            THEN [raised |-> "Timeout", timeout |-> None]
        ELSE [raised |-> "", timeout |-> Some(Min(lt - duration, DEFAULT_TIMEOUT))]

\* DNSUpstream._resp_servfail(query)
_resp_servfail(query) ==
    [make_response(query, TRUE) EXCEPT !.rcode = SERVFAIL]

\* The response the library hands back for qry when the attempt succeeds: the
\* library accepts only a response whose id and question match the query's.
UpstreamAnswer(qry, rdata) ==
    [make_response(qry, TRUE) EXCEPT !.answer = rdata]

\* A query() that draws no id and leaves the query's id as it came.
ResponseId_kept(qry_id, rnd) == qry_id

\* The id DNSUpstream.query restores on the response (id_ in the code): the
\* query's own id, or the random id it drew for a query with id 0.
ResponseId(qry_id, rnd) ==
    IF qry_id = 0 THEN rnd ELSE qry_id

\* The exceptions the non-UDP branch of DNSUpstream.query converts to SERVFAIL.
CaughtElse == {"DNSException", "ConnectionRefusedError"}

\* The exceptions the UDP branch of DNSUpstream.query converts to SERVFAIL.
CaughtUDP == {"DNSException"}

\* A UDP branch without the break: after a DNS exception the loop goes round
\* again while clock readings and library endings last.
RECURSIVE udp_loop_retrying(_, _, _, _, _, _, _, _)
udp_loop_retrying(resp, qry, start, lifetime, clocks, attempts, sent, per) ==
    IF resp # None \/ clocks = <<>> \/ attempts = <<>>
    THEN [raised |-> "",
          resp |-> IF resp = None /\ sent # <<>> THEN Some(_resp_servfail(qry))
                   ELSE resp,
          sent |-> sent, per_attempt |-> per]
    ELSE LET ct == _compute_timeout(start, lifetime, Head(clocks))
         IN  IF ct.raised # ""
                 THEN [raised |-> ct.raised, resp |-> None, sent |-> sent,
                       per_attempt |-> per]
             ELSE IF Head(attempts).kind \in CaughtUDP \cup {"answer"}
                 THEN udp_loop_retrying(
                          IF Head(attempts).kind = "answer"
                          THEN Some(UpstreamAnswer(qry, Head(attempts).rdata))
                          ELSE None,
                          qry, start, lifetime, Tail(clocks), Tail(attempts),
                          Append(sent, qry), Append(per, ct.timeout[1]))
             ELSE [raised |-> Head(attempts).kind, resp |-> None,
                   sent |-> Append(sent, qry),
                   per_attempt |-> Append(per, ct.timeout[1])]

\* The retry loop of the UDP branch of DNSUpstream.query (while resp is None).
\* clocks are the successive readings of time.time() and attempts the
\* successive endings of the library call; sent collects the messages handed
\* to the library.  The result is the response, or the exception that left
\* the loop uncaught.
RECURSIVE udp_loop(_, _, _, _, _, _, _, _)
udp_loop(resp, qry, start, lifetime, clocks, attempts, sent, per) ==
    IF resp # None \/ clocks = <<>> \/ attempts = <<>>
    THEN [raised |-> "", resp |-> resp, sent |-> sent, per_attempt |-> per]
    ELSE LET ct == _compute_timeout(start, lifetime, Head(clocks))
             attempt == Head(attempts)
             sent2 == Append(sent, qry)
         IN  IF ct.raised # ""
                 THEN [raised |-> ct.raised, resp |-> None, sent |-> sent,
                       per_attempt |-> per]
             ELSE IF attempt.kind = "answer"
                 THEN udp_loop(Some(UpstreamAnswer(qry, attempt.rdata)), qry, start,
                               lifetime, Tail(clocks), Tail(attempts), sent2,
                               Append(per, ct.timeout[1]))
             ELSE IF attempt.kind \in CaughtUDP
                 THEN [raised |-> "", resp |-> Some(_resp_servfail(qry)),
                       sent |-> sent2, per_attempt |-> Append(per, ct.timeout[1])]
             ELSE [raised |-> attempt.kind, resp |-> None, sent |-> sent2,
                   per_attempt |-> Append(per, ct.timeout[1])]

\* The other branch of DNSUpstream.query: one library call with the caller's
\* timeout; for UDP_TCP_FALLBACK the library returns (response, used_tcp).
else_branch(qry, transport, attempt) ==
    LET tuple_resp == transport \in {"UDP_TCP_FALLBACK"}
    IN  IF attempt.kind = "answer"
        THEN LET answer == UpstreamAnswer(qry, attempt.rdata)
                 resp == IF tuple_resp THEN <<answer, attempt.used_tcp>> ELSE answer
             IN  [raised |-> "", resp |-> Some(IF tuple_resp THEN resp[1] ELSE resp),
                  sent |-> <<qry>>, per_attempt |-> <<>>]
        ELSE IF attempt.kind \in CaughtElse
            THEN [raised |-> "", resp |-> Some(_resp_servfail(qry)),
                  sent |-> <<qry>>, per_attempt |-> <<>>]
        ELSE [raised |-> attempt.kind, resp |-> None, sent |-> <<qry>>,
              per_attempt |-> <<>>]

\* DNSUpstream.query(query, timeout) for an upstream built with the given
\* transport.  start and clocks are the readings of time.time(), rnd is the
\* value of dns.entropy.random_16(), attempts are the endings of the library
\* calls.  The result records the exception that left query() ("" when it
\* returned), the wire bytes returned, every message handed to the library
\* and the timeout computed for each UDP attempt.
query(wire, timeout, transport, start, clocks, rnd, attempts) ==
    LET qry0 == from_wire(wire)
        id_ == ResponseId(qry0.id, rnd)
        qry == IF qry0.id = 0 THEN [qry0 EXCEPT !.id = id_] ELSE qry0
        r == IF transport \in {"UDP"}
             THEN udp_loop(None, qry, start, timeout, clocks, attempts, <<>>, <<>>)
             ELSE else_branch(qry, transport, Head(attempts))
    IN  [ raised |-> r.raised,
          wire |-> IF r.raised = "" /\ r.resp # None
                   THEN Some(to_wire([r.resp[1] EXCEPT !.id = id_]))
                   ELSE None,
          sent |-> r.sent,
          per_attempt |-> r.per_attempt ]

(***************************************************************************)
(* One call of DNSUpstream.query, its inputs drawn from bounded sets       *)
(***************************************************************************)

\* How many library calls and clock readings the environment supplies.
MaxAttempts == 2

\* Transaction ids of the queries: 0 and a non-zero id.
QueryIds == {0, 41905}
\* Values dns.entropy.random_16() returns.
RandomIds == {0, 7}
\* The reading of time.time() at the start of query().
StartTime == 10
\* Later readings of the clock, relative to the start: backwards by more than
\* a second, backwards by a second, and forwards up to and past the lifetime.
ClockOffsets == {-2, -1, 0, 1, 5, 6}
\* The timeout argument of query(): omitted, or a number of seconds.
Timeouts == {None, Some(0), Some(1), Some(6)}
\* Answer sections the upstream returns.
Rdata == {<<"2001:db8::1">>}

\* The queries, in wire form, with and without the RD flag.
WireQueries ==
    { to_wire(make_query(i, rd, q)) : i \in QueryIds, rd \in BOOLEAN,
                                      q \in {CHOOSE x \in Questions : x.rdtype = "AAAA"} }

\* The endings of one library call.
Attempts ==
    [kind : {"answer"}, rdata : Rdata, used_tcp : BOOLEAN]
      \cup [kind : AttemptKinds \ {"answer"}, rdata : {<<>>}, used_tcp : {FALSE}]

\* Sequences over S of length 1..n
RECURSIVE SeqsUpTo(_, _)
SeqsUpTo(S, n) ==
    IF n = 0 THEN {}
    ELSE IF n = 1 THEN { <<x>> : x \in S }
    ELSE LET shorter == SeqsUpTo(S, n - 1)
         IN  shorter \cup { Append(s, x) : s \in { t \in shorter : Len(t) = n - 1 },
                                           x \in S }

\* The clock readings of n successive attempts, the first o seconds after the
\* start of query() and each later one a second after the one before.
Clocks(o, n) == [i \in 1..n |-> StartTime + o + (i - 1)]

\* No query() call is in progress.
UqIdle == [pc |-> "idle"]

\* A caller invokes query(wire, timeout) on an upstream of some transport; the
\* environment fixes what the clock, the random source and the library will do.
UpstreamCall ==
    /\ uq.pc = "idle"
    /\ \E wire \in WireQueries, timeout \in Timeouts, transport \in DNSTransport,
          rnd \in RandomIds,
          o \in ClockOffsets, attempts \in SeqsUpTo(Attempts, MaxAttempts) :
            uq' = [pc |-> "called", wire |-> wire, timeout |-> timeout,
                   transport |-> transport, start |-> StartTime,
                   clocks |-> Clocks(o, Len(attempts)),
                   rnd |-> rnd, attempts |-> attempts]
    /\ UNCHANGED <<dispatchVars, coapVars, dtlsVars, hostVars, factoryVars, procVars>>

\* query() runs to its return or to the exception that leaves it.
UpstreamReturn ==
    /\ uq.pc = "called"
    /\ uq' = [pc |-> "done", wire |-> uq.wire, timeout |-> uq.timeout,
              transport |-> uq.transport, start |-> uq.start, clocks |-> uq.clocks,
              rnd |-> uq.rnd, attempts |-> uq.attempts,
              out |-> query(uq.wire, uq.timeout, uq.transport, uq.start, uq.clocks,
                            uq.rnd, uq.attempts)]
    /\ UNCHANGED <<dispatchVars, coapVars, dtlsVars, hostVars, factoryVars, procVars>>

\* The caller is done with the result; the next call can be made.
UpstreamReset ==
    /\ uq.pc = "done"
    /\ uq' = UqIdle
    /\ UNCHANGED <<dispatchVars, coapVars, dtlsVars, hostVars, factoryVars, procVars>>


(***************************************************************************)
(* DNSUpstreamServerMixin: the dispatch tasks                               *)
(***************************************************************************)

\* How many queries a server receives in one run.
MaxTasks == 2

\* The wire queries clients send to a server.
ClientQueries == { w \in WireQueries : from_wire(w).rd }

\* Requester tokens of the UDP server: peer socket addresses.
Requesters == {<<"::1", 40001>>, <<"::1", 40002>>}

\* The transport of the one upstream client the servers share.
UpstreamTransport == "UDP"

\* What DNSUpstream.query can do for a dispatched query (the mixin passes its
\* own timeout, None by default): return an answer, return a synthesized
\* SERVFAIL, or raise.
QueryResults(wire) ==
    { query(wire, None, UpstreamTransport, StartTime, Clocks(0, 1), rnd, <<a>>) :
        rnd \in RandomIds \ {0}, a \in { x \in Attempts : ~x.used_tcp } }

\* The results in which the upstream query returns a response.
ReturningResults(wire) == { r \in QueryResults(wire) : r.raised = "" }

\* Datagrams that are no DNS message: two octets, less than a header.
MalformedQueries == { <<18, 52>> }

\* dns.message.from_wire(query) succeeds: the header and the two sections of
\* the layout of to_wire are there.
parsable(wire) == Len(wire) = 6

\* A task that never parses: every query is taken for a DNS message.
first_step_unparsed(qbytes) == "awaiting"

\* _get_query_response up to its first await: the debug call formats
\* dns.message.from_wire(query), whose exception ends the task, and otherwise
\* the upstream query is awaited.
first_step(qbytes) == IF parsable(qbytes) THEN "awaiting" ELSE "failed"

\* The exceptions of the tasks once task t was created with the query qbytes.
first_step_errors(errs, t, qbytes) ==
    IF parsable(qbytes) THEN errs
    ELSE Append(errs, [task |-> t, exc |-> "ShortHeader"])

\* A dispatch that serialises: a query received while an earlier task is
\* unfinished is queued instead of having its upstream query started.
dns_query_received_serialised(ts, qbytes, requester) ==
    Append(ts, [query |-> qbytes, requester |-> requester,
                state |-> IF ~parsable(qbytes) THEN "failed"
                          ELSE IF \A i \in 1..Len(ts) : ts[i].state \in {"done", "failed"}
                          THEN "awaiting" ELSE "queued",
                result |-> None])

\* dns_query_received: loop.create_task(self._get_query_response(query,
\* requester)).  The task is created at once and its upstream query is in
\* flight whatever other tasks exist.
dns_query_received(ts, qbytes, requester) ==
    Append(ts, [query |-> qbytes, requester |-> requester,
                state |-> first_step(qbytes), result |-> None])

\* The upstream query awaited by task t resolves; the event loop queues the
\* task's continuation behind whatever is already ready to run.
UpstreamResolves(t, results) ==
    /\ t \in 1..Len(tasks)
    /\ tasks[t].state = "awaiting"
    /\ \E r \in results :
          tasks' = [tasks EXCEPT ![t].state = "resolved", ![t].result = Some(r)]
    /\ ready' = Append(ready, t)
    /\ completed' = Append(completed, t)
    /\ UNCHANGED <<delivered, task_errors>>

\* A dispatch that keeps the requester on the server object, where the latest
\* dns_query_received overwrites it.
send_args_latest(t) ==
    [task |-> t, response |-> tasks[t].result[1].wire[1],
     requester |-> tasks[Len(tasks)].requester]

\* The arguments _get_query_response passes to send_response_to_requester: the
\* response its own upstream query returned and the requester it was created
\* with.
send_args(t) ==
    [task |-> t, response |-> tasks[t].result[1].wire[1],
     requester |-> tasks[t].requester]

\* The task the event loop runs next: the head of its FIFO.
next_ready(q) == Head(q)

\* The FIFO without its entry t.
RemoveFirst(q, t) ==
    LET i == CHOOSE j \in 1..Len(q) : q[j] = t
    IN  SubSeq(q, 1, i - 1) \o SubSeq(q, i + 1, Len(q))

(***************************************************************************)
(* DNSOverUDPServer                                                         *)
(***************************************************************************)

\* datagram_received(data, addr): dns_query_received(data, addr)
UdpDatagramReceived ==
    /\ self_transport # None
    /\ Len(tasks) < MaxTasks
    /\ \E data \in ClientQueries \cup MalformedQueries, addr \in Requesters :
          /\ tasks' = dns_query_received(tasks, data, addr)
          /\ task_errors' = first_step_errors(task_errors, Len(tasks) + 1, data)
    /\ UNCHANGED <<ready, completed, delivered>>
    /\ UNCHANGED <<upstreamVars, coapVars, dtlsVars, hostVars, factoryVars, procVars>>

\* The upstream query of one of the UDP server's tasks resolves.
UdpUpstreamResolves ==
    /\ \E t \in 1..Len(tasks) : UpstreamResolves(t, QueryResults(tasks[t].query))
    /\ UNCHANGED <<upstreamVars, coapVars, dtlsVars, hostVars, factoryVars, procVars>>

\* DNSOverUDPServer.send_response_to_requester(response, requester):
\* self.transport.sendto(response, requester), an attribute access on None
\* once close() has dropped the transport.
udp_send_response_to_requester(tr, response, requester) ==
    IF tr = None
    THEN [raised |-> "AttributeError", io |-> <<>>]
    ELSE [raised |-> "", io |-> <<"transport.sendto">>]

\* _get_query_response resumes after its await: an exception of the upstream
\* query ends the task, otherwise send_response_to_requester(resp, requester)
\* is called, and an exception of that call ends the task.
UdpRunReady ==
    /\ ready # <<>>
    /\ LET t == next_ready(ready)
       IN  /\ ready' = RemoveFirst(ready, t)
           /\ IF tasks[t].result[1].raised # ""
              THEN /\ tasks' = [tasks EXCEPT ![t].state = "failed"]
                   /\ task_errors' = Append(task_errors,
                                            [task |-> t, exc |-> tasks[t].result[1].raised])
                   /\ io' = <<>>
                   /\ UNCHANGED delivered
              ELSE LET a == send_args(t)
                       r == udp_send_response_to_requester(self_transport, a.response,
                                                           a.requester)
                   IN  /\ delivered' = Append(delivered, a)
                       /\ io' = r.io
                       /\ IF r.raised # ""
                          THEN /\ tasks' = [tasks EXCEPT ![t].state = "failed"]
                               /\ task_errors' = Append(task_errors,
                                                        [task |-> t, exc |-> r.raised])
                          ELSE /\ tasks' = [tasks EXCEPT ![t].state = "done"]
                               /\ UNCHANGED task_errors
    /\ server_op' = [op |-> "send_response_to_requester", raised |-> "", peer |-> None]
    /\ UNCHANGED completed
    /\ UNCHANGED <<server, self_transport, wrapper, request_interfaces, closes>>
    /\ UNCHANGED <<upstreamVars, coapVars, dtlsVars, factoryVars, procVars>>

(***************************************************************************)
(* DNSOverCoAPServerFactory: _InnerDNSUpstream and DNSQueryResource         *)
(***************************************************************************)

\* How many CoAP requests reach dispatch in one run.
MaxRequests == 2

\* The query byte strings CoAP clients send.
CoapQueries == ClientQueries

\* dict assignment d[k] = v
DictSet(d, k, v) == [x \in DOMAIN d \cup {k} |-> IF x = k THEN v ELSE d[x]]

\* The slot dns_response awaits for query: it stores a new Future under the
\* key, replacing whatever was stored there, and awaits what the map then holds.
dns_response_slot(qbytes) == Len(futures) + 1

CONTENT_FORMAT_DNS_MESSAGE == 553

\* The content format text/plain, which the tests send where the DNS message
\* format is expected.
TextPlain == {0}

\* The alphabet of base64.urlsafe_b64encode, the value of a character being
\* its position in it.
B64Alphabet == "ABCDEFGHIJKLMNOPQRSTUVWXYZabcdefghijklmnopqrstuvwxyz0123456789-_"
B64Char(v) == SubSeq(B64Alphabet, v + 1, v + 1)
B64Value(c) == (CHOOSE i \in 1..Len(B64Alphabet) : SubSeq(B64Alphabet, i, i) = c) - 1

\* base64.urlsafe_b64encode(octets): three octets become four characters, a
\* final group of one or two octets is padded with "=".
RECURSIVE urlsafe_b64encode(_)
urlsafe_b64encode(octets) ==
    IF Len(octets) = 0 THEN ""
    ELSE IF Len(octets) = 1
    THEN B64Char(octets[1] \div 4) \o B64Char((octets[1] % 4) * 16) \o "=="
    ELSE IF Len(octets) = 2
    THEN B64Char(octets[1] \div 4)
           \o B64Char((octets[1] % 4) * 16 + octets[2] \div 16)
           \o B64Char((octets[2] % 16) * 4) \o "="
    ELSE B64Char(octets[1] \div 4)
           \o B64Char((octets[1] % 4) * 16 + octets[2] \div 16)
           \o B64Char((octets[2] % 16) * 4 + octets[3] \div 64)
           \o B64Char(octets[3] % 64)
           \o urlsafe_b64encode(SubSeq(octets, 4, Len(octets)))

\* The data characters of a base64 text: what precedes its "=" padding
RECURSIVE strip_padding(_)
strip_padding(str) ==
    IF Len(str) > 0 /\ SubSeq(str, Len(str), Len(str)) = "="
    THEN strip_padding(SubSeq(str, 1, Len(str) - 1))
    ELSE str

\* "=" * n
RECURSIVE padding(_)
padding(n) == IF n <= 0 THEN "" ELSE "=" \o padding(n - 1)

\* The octets of the data characters d of a base64 text
RECURSIVE b64_octets(_)
b64_octets(d) ==
    LET v(k) == B64Value(SubSeq(d, k, k))
    IN  IF Len(d) < 2 THEN <<>>
        ELSE IF Len(d) = 2 THEN << v(1) * 4 + v(2) \div 16 >>
        ELSE IF Len(d) = 3
        THEN << v(1) * 4 + v(2) \div 16, (v(2) % 16) * 16 + v(3) \div 4 >>
        ELSE << v(1) * 4 + v(2) \div 16, (v(2) % 16) * 16 + v(3) \div 4,
                (v(3) % 4) * 64 + v(4) >>
               \o b64_octets(SubSeq(d, 5, Len(d)))

\* base64.urlsafe_b64decode(text) for a text of data characters followed by
\* "=": binascii.Error when the data characters number one more than a
\* multiple of four or the padding does not complete the last group; padding
\* beyond that is ignored.
urlsafe_b64decode(text) ==
    LET d == strip_padding(text)
        pads == Len(text) - Len(d)
        r == Len(d) % 4
    IN  IF r = 1 \/ (r = 2 /\ pads < 2) \/ (r = 3 /\ pads < 1)
        THEN [raised |-> "binascii.Error", octets |-> <<>>]
        ELSE [raised |-> "", octets |-> b64_octets(d)]

\* The octets of the name, type and class of a question
QuestionOctets(q) ==
    << 7, 101, 120, 97, 109, 112, 108, 101, 3, 111, 114, 103, 0 >>
       \o (IF q.rdtype = "AAAA" THEN <<0, 28>> ELSE <<0, 1>>) \o <<0, 1>>

\* The octets of a DNS query in wire form: the id, the flags, the four
\* section counts and the question.
wire_octets(w) ==
    << w[1], w[2], w[3], w[4], 0, Len(w[5]), 0, Len(w[6]), 0, 0, 0, 0 >>
       \o QuestionOctets(w[5][1])

\* The query whose wire form has the given octets
octets_wire(octets) == CHOOSE w \in WireQueries : wire_octets(w) = octets

\* str.split(sep): the pieces of a string between its sep characters
RECURSIVE split(_, _)
split(str, sep) ==
    IF \A k \in 1..Len(str) : SubSeq(str, k, k) # sep
    THEN <<str>>
    ELSE LET k == CHOOSE x \in 1..Len(str) :
                     /\ SubSeq(str, x, x) = sep
                     /\ \A y \in 1..(x - 1) : SubSeq(str, y, y) # sep
         IN  <<SubSeq(str, 1, k - 1)>> \o split(SubSeq(str, k + 1, Len(str)), sep)

\* str.strip(ch): the string without the ch characters at its two ends
RECURSIVE strip(_, _)
strip(str, ch) ==
    IF Len(str) > 0 /\ SubSeq(str, 1, 1) = ch
    THEN strip(SubSeq(str, 2, Len(str)), ch)
    ELSE IF Len(str) > 0 /\ SubSeq(str, Len(str), Len(str)) = ch
    THEN strip(SubSeq(str, 1, Len(str) - 1), ch)
    ELSE str

\* dict(pairs): a ValueError unless every element has two items; a later
\* pair replaces an earlier one with the same key.
dict(pairs) ==
    IF \E k \in 1..Len(pairs) : Len(pairs[k]) # 2
    THEN [raised |-> "ValueError", keys |-> {}, value |-> EmptyDict]
    ELSE LET keys == { pairs[k][1] : k \in 1..Len(pairs) }
             last(key) == CHOOSE k \in 1..Len(pairs) :
                              /\ pairs[k][1] = key
                              /\ \A m \in (k + 1)..Len(pairs) : pairs[m][1] # key
         IN  [raised |-> "", keys |-> keys,
              value |-> [key \in keys |-> pairs[last(key)][2]]]

\* A re-padding that leaves the value as it came.
repad_none(query_code) == query_code

\* query_code + "=" * (4 - len(query_code) % 4)
repad(query_code) == query_code \o padding(4 - (Len(query_code) % 4))

\* DNSQueryResource.render_get up to the decoding of the dns parameter: the
\* exception raised, or the octets decoded.
render_get_decoded(request) ==
    LET queries == dict([k \in 1..Len(request.uri_query) |->
                            split(request.uri_query[k], "=")])
    IN  IF queries.raised # "" THEN [raised |-> queries.raised, octets |-> <<>>]
        ELSE IF "dns" \in queries.keys
        THEN urlsafe_b64decode(repad(queries.value["dns"]))
        ELSE [raised |-> "BadRequest", octets |-> <<>>]

\* DNSQueryResource.render_get up to its call of _render_acceptable: the
\* exception raised, or the query decoded from the dns parameter.
render_get(request) ==
    LET decoded_query == render_get_decoded(request)
    IN  IF decoded_query.raised # ""
        THEN [raised |-> decoded_query.raised, query |-> None]
        ELSE [raised |-> "", query |-> Some(octets_wire(decoded_query.octets))]

\* _render_with_payload taking a request without Content-Format as well.
_render_with_payload_lenient(request) ==
    IF request.content_format \in {None, Some(CONTENT_FORMAT_DNS_MESSAGE)}
    THEN [raised |-> "", query |-> Some(request.payload)]
    ELSE [raised |-> "UnsupportedContentFormat", query |-> None]

\* DNSQueryResource._render_with_payload up to its call of
\* _render_acceptable (render_post and render_fetch)
_render_with_payload(request) ==
    IF request.content_format = Some(CONTENT_FORMAT_DNS_MESSAGE)
    THEN [raised |-> "", query |-> Some(request.payload)]
    ELSE [raised |-> "UnsupportedContentFormat", query |-> None]

\* The render_* method the resource runs for a request, up to the dispatch
render(request) ==
    IF request.method = "GET" THEN render_get(request)
    ELSE _render_with_payload(request)

\* A response message without content format and payload.
_coap_response_bare(dns_response) ==
    [code |-> None, content_format |-> None, payload |-> <<>>]

\* DNSQueryResource._coap_response(dns_response): a message with the DNS
\* message content format and the response as payload; no code is set.
_coap_response(dns_response) ==
    [code |-> None, content_format |-> Some(CONTENT_FORMAT_DNS_MESSAGE),
     payload |-> dns_response]

\* _render_acceptable returning the response whatever the Accept option is.
accept_unchecked(accept, formatted_response) ==
    [raised |-> "", message |-> _coap_response(formatted_response)]

\* _render_acceptable after its await: the Accept option is checked once the
\* DNS response is there.
accept_checked(accept, formatted_response) ==
    IF accept = None \/ accept = Some(CONTENT_FORMAT_DNS_MESSAGE)
    THEN [raised |-> "", message |-> _coap_response(formatted_response)]
    ELSE [raised |-> "NotAcceptable",
          message |-> [code |-> None, content_format |-> None, payload |-> <<>>]]

\* The code the CoAP library gives a response the handler returned without
\* one: 2.05 Content for GET and FETCH, 2.04 Changed for POST.
default_code(method) == IF method = "POST" THEN "2.04" ELSE "2.05"

\* The code of the response the CoAP library sends when a handler raises:
\* the code of a renderable error, 5.00 for any other exception.
error_code(exc) ==
    IF exc = "BadRequest" THEN "4.00"
    ELSE IF exc = "NotAcceptable" THEN "4.06"
    ELSE IF exc = "UnsupportedContentFormat" THEN "4.15"
    ELSE "5.00"

\* The response the client gets for a handler that raised exc
error_response(exc) ==
    [code |-> Some(error_code(exc)), content_format |-> None, payload |-> <<>>]

\* The text of the dns parameter a client builds for a query:
\* urlsafe_b64encode(query) without its padding.
QueryCode(w) == strip(urlsafe_b64encode(wire_octets(w)), "=")

\* The Accept and Content-Format options of the requests: absent, the DNS
\* message format, or text/plain.
FormatOptions ==
    {None, Some(CONTENT_FORMAT_DNS_MESSAGE)} \cup { Some(f) : f \in TextPlain }

\* The URI queries of the GET requests: the dns parameter of a query, alone,
\* after another parameter and with its padding left on; no parameter;
\* another parameter only; parameters without "=" and with two of them; and
\* a dns parameter that is no base64 text.
UriQueries ==
    { <<"dns=" \o QueryCode(w)>> : w \in CoapQueries }
      \cup { <<"foobar=x", "dns=" \o QueryCode(w)>> : w \in CoapQueries }
      \cup { <<"dns=" \o urlsafe_b64encode(wire_octets(w))>> : w \in CoapQueries }
      \cup { <<"foobar=" \o QueryCode(w)>> : w \in CoapQueries }
      \cup { <<>> }
      \cup { <<"foobar">>, <<"a=b=c">>, <<"dns=A">> }

\* The requests clients send to the resource.
Requests ==
    [ method : {"POST", "FETCH"}, accept : FormatOptions,
      content_format : FormatOptions, payload : CoapQueries, uri_query : {<<>>} ]
      \cup [ method : {"GET"}, accept : FormatOptions, content_format : {None},
             payload : {<<>>}, uri_query : UriQueries ]

\* The requests that carry a query in the DNS message format and no Accept
\* option.
PlainRequests ==
    { r \in Requests : /\ r.method = "FETCH"
                       /\ r.accept = None
                       /\ r.content_format = Some(CONTENT_FORMAT_DNS_MESSAGE) }

\* What render does with each request
Rendered == [request \in Requests |-> render(request)]

\* A request reaches its render_* method.  One that fails there is answered
\* at once.  Otherwise _render_acceptable awaits dns_response(query): the
\* Future is stored, dns_query_received(query, query) creates the task, and
\* the handler suspends on the Future the map holds.
Render(request) ==
    LET r == Rendered[request]
        f == dns_response_slot(r.query[1])
    IN  IF r.raised # ""
        THEN /\ handlers' = Append(handlers,
                    [request |-> request,
                     query |-> None, task |-> 0, future |-> 0,
                     state |-> "returned",
                     response |-> Some(error_response(r.raised))])
             /\ UNCHANGED <<futures, pending, tasks>>
        ELSE /\ futures' = IF f > Len(futures)
                           THEN Append(futures, [done |-> FALSE, result |-> None])
                           ELSE futures
             /\ pending' = DictSet(pending, r.query[1], f)
             /\ tasks' = dns_query_received(tasks, r.query[1], r.query[1])
             /\ handlers' = Append(handlers,
                    [request |-> request,
                     query |-> r.query, task |-> Len(tasks) + 1, future |-> f,
                     state |-> "awaiting", response |-> None])

\* A request with a DNS query in its payload is served.
CoapRequest ==
    /\ Len(handlers) < MaxRequests
    /\ \E request \in PlainRequests : Render(request)
    /\ UNCHANGED <<ready, completed, delivered, task_errors>>
    /\ UNCHANGED <<upstreamVars, dtlsVars, hostVars, factoryVars, procVars>>

\* How many requests of any kind the resource serves in one run.
MaxRenders == 1

\* A request of any kind is served.
CoapRender ==
    /\ Len(handlers) < MaxRenders
    /\ \E request \in Requests : Render(request)
    /\ UNCHANGED <<ready, completed, delivered, task_errors>>
    /\ UNCHANGED <<upstreamVars, dtlsVars, hostVars, factoryVars, procVars>>

\* The upstream query of one of the CoAP resource's tasks resolves.
CoapUpstreamResolves ==
    /\ \E t \in 1..Len(tasks) : UpstreamResolves(t, QueryResults(tasks[t].query))
    /\ UNCHANGED <<upstreamVars, coapVars, dtlsVars, hostVars, factoryVars, procVars>>

\* The same, for an upstream that answers every query.
CoapUpstreamAnswers ==
    /\ \E t \in 1..Len(tasks) : UpstreamResolves(t, ReturningResults(tasks[t].query))
    /\ UNCHANGED <<upstreamVars, coapVars, dtlsVars, hostVars, factoryVars, procVars>>

\* A send_response_to_requester that takes the requester's entry out of the
\* map once its Future is fulfilled.
pending_popped(map, requester) ==
    [key \in DOMAIN map \ {requester} |-> map[key]]

\* _pending_responses after send_response_to_requester(response, requester):
\* set_result acts on the Future; the map keeps every entry.
pending_after_send(map, requester) == map

\* _get_query_response resumes after its await and calls
\* _InnerDNSUpstream.send_response_to_requester(response, requester): the
\* assertion, then set_result on the Future the map holds for the requester,
\* which raises InvalidStateError when that Future is already done.
CoapRunReady ==
    /\ ready # <<>>
    /\ LET t == next_ready(ready)
           fail(exc) ==
               /\ tasks' = [tasks EXCEPT ![t].state = "failed"]
               /\ task_errors' = Append(task_errors, [task |-> t, exc |-> exc])
               /\ UNCHANGED futures
       IN  /\ ready' = RemoveFirst(ready, t)
           /\ IF tasks[t].result[1].raised # ""
              THEN fail(tasks[t].result[1].raised) /\ UNCHANGED <<delivered, pending>>
              ELSE LET a == send_args(t)
                   IN  /\ delivered' = Append(delivered, a)
                       /\ pending' = IF a.requester \in DOMAIN pending
                                     THEN pending_after_send(pending, a.requester)
                                     ELSE pending
                       /\ IF a.requester \notin DOMAIN pending
                          THEN fail("AssertionError")
                          ELSE IF futures[pending[a.requester]].done
                          THEN fail("InvalidStateError")
                          ELSE /\ futures' = [futures EXCEPT
                                     ![pending[a.requester]] =
                                         [done |-> TRUE, result |-> Some(a.response)]]
                               /\ tasks' = [tasks EXCEPT ![t].state = "done"]
                               /\ UNCHANGED task_errors
    /\ UNCHANGED <<completed, handlers>>
    /\ UNCHANGED <<upstreamVars, dtlsVars, hostVars, factoryVars, procVars>>

\* The Future a handler awaits is done: dns_response returns its result,
\* _render_acceptable checks the Accept option and returns the CoAP response
\* or raises, and the library completes the response the client gets.
HandlerResume ==
    /\ \E h \in 1..Len(handlers) :
          /\ handlers[h].state = "awaiting"
          /\ futures[handlers[h].future].done
          /\ LET r == accept_checked(handlers[h].request.accept,
                                     futures[handlers[h].future].result[1])
             IN  handlers' = [handlers EXCEPT
                     ![h].state = "returned",
                     ![h].response =
                         IF r.raised # "" THEN Some(error_response(r.raised))
                         ELSE Some([r.message EXCEPT
                                      !.code = Some(default_code(handlers[h].request.method))])]
    /\ UNCHANGED <<pending, futures>>
    /\ UNCHANGED <<upstreamVars, dispatchVars, dtlsVars, hostVars, factoryVars, procVars>>

(***************************************************************************)
(* TinyDTLSWrapper                                                          *)
(***************************************************************************)

EVENT_CONNECTED == 478

\* Codes the engine passes to _event other than EVENT_CONNECTED: the
\* description of a close_notify alert.
OtherEventCodes == {0}

\* The address tuples a datagram transport reports for a peer: (host, port)
\* on an IPv4 socket and (host, port, flowinfo, scope_id) on an IPv6 socket.
PeerAddrs == { <<"::1", 853>>, <<"::1", 853, 0, 0>>, <<"10.0.0.2", 853>> }

\* DTLSSocket's dtls.Session(addr, port, flowinfo=0, scope_id=0)
Session(addr) ==
    [ addr |-> addr[1], port |-> addr[2],
      flowinfo |-> IF Len(addr) > 2 THEN addr[3] ELSE 0,
      scope_id |-> IF Len(addr) > 3 THEN addr[4] ELSE 0 ]

Sessions == { Session(a) : a \in PeerAddrs }

\* Payloads a peer sends and the proxy writes.
Payloads == { "dns-message" }

\* An argument that is an address tuple or a dtls.Session object.
TupleArg(a) == [is_tuple |-> TRUE, addr |-> a, session |-> Session(a)]
SessionArg(sn) == [is_tuple |-> FALSE, addr |-> <<>>, session |-> sn]
PeerArgs == { TupleArg(a) : a \in PeerAddrs } \cup { SessionArg(sn) : sn \in Sessions }

\* What the engine does while it handles one datagram: the callbacks it makes
\* (the code of the last event it raised, the application data it decrypted,
\* the records it emits) and the value it returns.  The callbacks and the
\* return value are independent: a datagram can carry several records, and an
\* alert record makes the engine call _event and then return a negative value.
EngineBehaviours ==
    [ ret : {-1, 0},
      event : {None, Some(EVENT_CONNECTED)} \cup { Some(c) : c \in OtherEventCodes },
      read : {None} \cup { Some(d) : d \in Payloads },
      writes : {0, 1} ]

\* _read(addr, data): the value _app_data takes, (data, addr + (0, 0))
_read(addr, data) == <<data, addr \o <<0, 0>>>>

\* _event(level, code): the value _last_event takes, the code
_event(level, code) == code

\* _write(addr, data): transport.sendto(data, addr + (0, 0)), the datagram the
\* callback sends; the delay before a ServerHelloDone is in write_callback.
_write(addr, data) == [data |-> data, addr |-> addr \o <<0, 0>>]

\* The (host, port) pair the engine names a session's peer by in its callbacks.
EngineAddr(sn) == <<sn.addr, sn.port>>

is_connected(addr) == addr \in DOMAIN active_sessions

DictDel(d, k) == [x \in DOMAIN d \ {k} |-> d[x]]

\* The elements of a finite set, in some order.
RECURSIVE SetToSeq(_)
SetToSeq(S) ==
    IF S = {} THEN <<>>
    ELSE LET x == CHOOSE y \in S : TRUE
         IN  <<x>> \o SetToSeq(S \ {x})

\* sessions(): list(self._active_sessions)
sessions_list == SetToSeq(DOMAIN active_sessions)

\* is_connected(addr) is called and answers.
DtlsIsConnected ==
    /\ \E addr \in PeerAddrs :
          last_op' = [op |-> "is_connected", arg |-> TupleArg(addr),
                      ret |-> Some(is_connected(addr))]
    /\ sendto' = <<>>
    /\ engine_writes' = <<>>
    /\ UNCHANGED <<active_sessions, app_data, last_event>>
    /\ UNCHANGED <<upstreamVars, dispatchVars, coapVars, hostVars, factoryVars, procVars>>

\* sessions() is called and gives the keys of the active sessions.
DtlsSessions ==
    /\ last_op' = [op |-> "sessions", arg |-> SessionArg(Session(<<"", 0>>)),
                   ret |-> Some(sessions_list)]
    /\ sendto' = <<>>
    /\ engine_writes' = <<>>
    /\ UNCHANGED <<active_sessions, app_data, last_event>>
    /\ UNCHANGED <<upstreamVars, dispatchVars, coapVars, hostVars, factoryVars, procVars>>

\* connect(addr): the engine's connect sends its ClientHello through _write,
\* may raise an event, and returns a session or nothing.
DtlsConnect ==
    /\ \E addr \in PeerAddrs : \E connection \in {None, Some(Session(addr))},
                                  ev \in {None} \cup { Some(c) : c \in OtherEventCodes } :
          /\ last_event' = IF ev # None THEN Some(_event(0, ev[1]))
                           ELSE last_event
          /\ active_sessions' = IF connection # None
                                THEN DictSet(active_sessions, addr, connection[1])
                                ELSE active_sessions
          /\ sendto' = <<_write(<<addr[1], addr[2]>>, "ClientHello")>>
          /\ last_op' = [op |-> "connect", arg |-> TupleArg(addr), ret |-> None]
    /\ engine_writes' = <<>>
    /\ UNCHANGED app_data
    /\ UNCHANGED <<upstreamVars, dispatchVars, coapVars, hostVars, factoryVars, procVars>>

\* close(addr): for a connected peer the engine closes the session, which
\* sends an alert through _write, and the entry is deleted.
DtlsClose ==
    /\ \E addr \in PeerAddrs :
          /\ IF is_connected(addr)
             THEN /\ sendto' = <<_write(EngineAddr(active_sessions[addr]), "Alert")>>
                  /\ active_sessions' = DictDel(active_sessions, addr)
             ELSE /\ sendto' = <<>>
                  /\ UNCHANGED active_sessions
          /\ last_op' = [op |-> "close", arg |-> TupleArg(addr), ret |-> None]
    /\ engine_writes' = <<>>
    /\ UNCHANGED <<app_data, last_event>>
    /\ UNCHANGED <<upstreamVars, dispatchVars, coapVars, hostVars, factoryVars, procVars>>

\* A handle_message that stores the new session under (host, port) only.
connected_key_short(addr) == SubSeq(addr, 1, 2)

\* The key handle_message stores the new session under when the engine raised
\* EVENT_CONNECTED: the address tuple it was called with, or the 4-tuple taken
\* from the session object it was called with.
connected_key(addr) == addr

\* A test that takes every peer without a session as newly connected.
newly_connected_any(addr, ev) == ~is_connected(addr)

\* self._last_event == self.EVENT_CONNECTED and not self.is_connected(addr)
newly_connected(addr, ev) == ev = Some(EVENT_CONNECTED) /\ ~is_connected(addr)

\* handle_message(msg, addr) once the engine has made its callbacks and
\* returned ret; ev and data are the slots as the callbacks left them.  The
\* result is the new active_sessions, the new slots and the returned triple.
handle_message(addr, ret, ev, data) ==
    IF ret < 0
    THEN [ sessions |-> active_sessions, last_event |-> ev, app_data |-> data,
           ret |-> <<None, None, FALSE>> ]
    ELSE LET connected == newly_connected(addr, ev)
             sessions == IF connected
                         THEN DictSet(active_sessions, connected_key(addr),
                                      Session(SubSeq(addr, 1, Min(Len(addr), 4))))
                         ELSE active_sessions
         IN  IF data = None
             THEN [ sessions |-> sessions, last_event |-> None, app_data |-> None,
                    ret |-> <<None, None, connected>> ]
             ELSE [ sessions |-> sessions, last_event |-> None, app_data |-> None,
                    ret |-> <<Some(data[1][1]), Some(data[1][2]), connected>> ]

\* handle_message(msg, addr) for an address tuple (handleMessageAddr) or a
\* session object (handleMessage, addr becoming the session's 4-tuple), with
\* the engine behaving as e.
DtlsHandleMessage ==
    /\ \E arg \in PeerArgs, e \in EngineBehaviours :
          LET addr == IF arg.is_tuple THEN arg.addr
                      ELSE << arg.session.addr, arg.session.port,
                              arg.session.flowinfo, arg.session.scope_id >>
              eaddr == <<addr[1], addr[2]>>
              ev == IF e.event # None THEN Some(_event(0, e.event[1]))
                    ELSE last_event
              data == IF e.read # None THEN Some(_read(eaddr, e.read[1]))
                      ELSE app_data
              r == handle_message(addr, e.ret, ev, data)
          IN  /\ active_sessions' = r.sessions
              /\ last_event' = r.last_event
              /\ app_data' = r.app_data
              /\ sendto' = IF e.writes = 1 THEN <<_write(eaddr, "Record")>> ELSE <<>>
              /\ last_op' = [op |-> "handle_message",
                             arg |-> [arg EXCEPT !.addr = addr], ret |-> r.ret,
                             engine |-> [ret |-> e.ret, event |-> e.event]]
    /\ engine_writes' = <<>>
    /\ UNCHANGED <<upstreamVars, dispatchVars, coapVars, hostVars, factoryVars, procVars>>

\* A write that does not require an active session for an address tuple.
write_target_unchecked(arg) ==
    IF arg.is_tuple
    THEN Some(IF is_connected(arg.addr) THEN active_sessions[arg.addr]
              ELSE arg.session)
    ELSE Some(arg.session)

\* The session write(msg, addr) hands to the engine's write, or nothing when
\* the message is dropped: an address tuple needs an active session, a session
\* object is used as it is.
write_target(arg) ==
    IF arg.is_tuple
    THEN IF ~is_connected(arg.addr) THEN None ELSE Some(active_sessions[arg.addr])
    ELSE Some(arg.session)

\* write(msg, addr); the engine, when called, emits the encrypted record
\* through _write if it knows the session.
DtlsWrite ==
    /\ \E arg \in PeerArgs, msg \in Payloads, emits \in BOOLEAN :
          LET target == write_target(arg)
          IN  /\ engine_writes' = IF target = None THEN <<>>
                                  ELSE << [session |-> target[1], msg |-> msg] >>
              /\ sendto' = IF target # None /\ emits
                           THEN <<_write(EngineAddr(target[1]), "Record")>>
                           ELSE <<>>
              /\ last_op' = [op |-> "write", arg |-> arg, ret |-> None]
    /\ UNCHANGED <<active_sessions, app_data, last_event>>
    /\ UNCHANGED <<upstreamVars, dispatchVars, coapVars, hostVars, factoryVars, procVars>>

(***************************************************************************)
(* The server handles: DNSOverUDPServer, DNSOverDTLSServer, ClosableContext *)
(***************************************************************************)

ServerKinds == {"udp", "dtls", "coap"}

\* How many times close() is called on a server handle in one run.
MaxCloses == 2

\* The datagram transports create_datagram_endpoint hands to connection_made,
\* named by the address family of the socket they are bound to.
Transports == {"inet", "inet6"}

\* The peer addresses a datagram transport reports to datagram_received:
\* (host, port) on an IPv4 socket, (host, port, flowinfo, scope_id) on an IPv6
\* socket, the scope id being non-zero for a link-local peer.
TransportAddrs(tr) ==
    IF tr = Some("inet") THEN { <<"10.0.0.2", 40001>> }
    ELSE IF tr = Some("inet6")
    THEN { <<"::1", 40001, 0, 0>>, <<"fe80::1", 40001, 0, 2>> }
    ELSE {}

\* How many queries the DTLS server dispatches in one run.
MaxDtlsTasks == 1

\* The DNS queries DTLS clients send.
DtlsQueries == { w \in ClientQueries : from_wire(w).id # 0 }

\* What the engine does with one datagram from the peer at addr (see
\* EngineBehaviours).  It decrypts application data only on an established
\* session: the peer completed its handshake earlier, or completes it in this
\* datagram.  A payload that is no DNS message comes as the one application
\* data record of a datagram on an established session.
ServerEngineBehaviours(addr) ==
    { e \in [ ret : {-1, 0},
              event : {None, Some(EVENT_CONNECTED)}
                         \cup { Some(c) : c \in OtherEventCodes },
              read : {None} \cup { Some(d) : d \in DtlsQueries \cup MalformedQueries },
              writes : {0, 1} ] :
        /\ e.read # None => (is_connected(addr) \/ e.event = Some(EVENT_CONNECTED))
        /\ (e.read # None /\ e.read[1] \in MalformedQueries)
              => (is_connected(addr) /\ e.ret = 0 /\ e.event = None /\ e.writes = 0) }

\* DNSOverUDPServer.close(): the transport is closed and dropped if there is
\* one.  The result is the new self.transport and the calls made.
\* A close() that closes the transport without looking whether there is one.
udp_close_unguarded(tr) ==
    [transport |-> None, io |-> <<"transport.close">>,
     raised |-> IF tr = None THEN "AttributeError" ELSE ""]

udp_close(tr) ==
    IF tr # None
    THEN [transport |-> None, io |-> <<"transport.close">>, raised |-> ""]
    ELSE [transport |-> tr, io |-> <<>>, raised |-> ""]

\* close() of the UDP server
UdpClose ==
    /\ closes < MaxCloses
    /\ LET r == udp_close(self_transport)
       IN  /\ self_transport' = r.transport
           /\ io' = r.io
           /\ server_op' = [op |-> "close", raised |-> r.raised, peer |-> None]
           /\ closes' = IF r.raised = "" THEN closes + 1 ELSE closes
    /\ UNCHANGED <<server, wrapper, request_interfaces>>
    /\ UNCHANGED <<upstreamVars, dispatchVars, coapVars, dtlsVars, factoryVars, procVars>>

\* DNSOverDTLSServer.datagram_received(data, addr): handle_message(data, addr)
\* with the engine behaving as e, then dns_query_received(data, addr) with the
\* pair handle_message returned, unless the data is None.
DtlsDatagramReceived ==
    /\ self_transport # None
    /\ wrapper # None
    /\ \E addr \in TransportAddrs(self_transport) : \E e \in ServerEngineBehaviours(addr) :
          LET eaddr == <<addr[1], addr[2]>>
              ev == IF e.event # None THEN Some(_event(0, e.event[1]))
                    ELSE last_event
              data == IF e.read # None THEN Some(_read(eaddr, e.read[1]))
                      ELSE app_data
              r == handle_message(addr, e.ret, ev, data)
          IN  /\ r.ret[1] # None => Len(tasks) < MaxDtlsTasks
              /\ active_sessions' = r.sessions
              /\ last_event' = r.last_event
              /\ app_data' = r.app_data
              /\ sendto' = IF e.writes = 1 THEN <<_write(eaddr, "Record")>> ELSE <<>>
              /\ tasks' = IF r.ret[1] = None THEN tasks
                          ELSE dns_query_received(tasks, r.ret[1][1], r.ret[2][1])
              /\ task_errors' = IF r.ret[1] = None THEN task_errors
                                ELSE first_step_errors(task_errors, Len(tasks) + 1,
                                                       r.ret[1][1])
              /\ server_op' = [op |-> "datagram_received", raised |-> "",
                               peer |-> addr,
                               engine |-> [ret |-> e.ret, read |-> e.read]]
    /\ engine_writes' = <<>>
    /\ io' = <<>>
    /\ UNCHANGED <<ready, completed, delivered, last_op>>
    /\ UNCHANGED <<server, self_transport, wrapper, request_interfaces, closes>>
    /\ UNCHANGED <<upstreamVars, coapVars, factoryVars, procVars>>

\* The upstream query of one of the DTLS server's tasks resolves.
DtlsUpstreamResolves ==
    /\ \E t \in 1..Len(tasks) : UpstreamResolves(t, QueryResults(tasks[t].query))
    /\ UNCHANGED <<upstreamVars, coapVars, dtlsVars, hostVars, factoryVars, procVars>>

\* _get_query_response resumes after its await and calls
\* DNSOverDTLSServer.send_response_to_requester(response, requester), which
\* is self._dtls.write(response, requester).
DtlsRunReady ==
    /\ ready # <<>>
    /\ LET t == next_ready(ready)
           fail(exc) ==
               /\ tasks' = [tasks EXCEPT ![t].state = "failed"]
               /\ task_errors' = Append(task_errors, [task |-> t, exc |-> exc])
               /\ engine_writes' = <<>>
               /\ sendto' = <<>>
       IN  /\ ready' = RemoveFirst(ready, t)
           /\ IF tasks[t].result[1].raised # ""
              THEN fail(tasks[t].result[1].raised) /\ UNCHANGED delivered
              ELSE LET a == send_args(t)
                       arg == TupleArg(a.requester)
                       target == write_target(arg)
                   IN  /\ delivered' = Append(delivered, a)
                       /\ IF wrapper = None
                          THEN fail("AttributeError")
                          ELSE /\ \E emits \in BOOLEAN :
                                    sendto' = IF target # None /\ emits
                                              THEN <<_write(EngineAddr(target[1]), "Record")>>
                                              ELSE <<>>
                               /\ engine_writes' =
                                     IF target = None THEN <<>>
                                     ELSE << [session |-> target[1], msg |-> a.response] >>
                               /\ tasks' = [tasks EXCEPT ![t].state = "done"]
                               /\ UNCHANGED task_errors
    /\ io' = <<>>
    /\ server_op' = [op |-> "send_response_to_requester", raised |-> "", peer |-> None]
    /\ UNCHANGED <<completed, active_sessions, app_data, last_event, last_op>>
    /\ UNCHANGED <<server, self_transport, wrapper, request_interfaces, closes>>
    /\ UNCHANGED <<upstreamVars, coapVars, factoryVars, procVars>>

\* A close() that closes the transport and leaves the sessions as they are.
dtls_server_close_transport_only(tr, wr, sessions) ==
    IF tr # None
    THEN [transport |-> None, sessions |-> sessions,
          io |-> <<"transport.close">>, sendto |-> <<>>]
    ELSE [transport |-> tr, sessions |-> sessions, io |-> <<>>, sendto |-> <<>>]

\* DNSOverDTLSServer.close(): with a transport, every session of the wrapper
\* is closed (the engine sends an alert through _write and the entry is
\* deleted), then the transport is closed and dropped.  The result is the new
\* self.transport, the sessions left, the calls made and the datagrams sent.
dtls_server_close(tr, wr, sessions) ==
    IF tr # None
    THEN LET closing == IF wr # None THEN SetToSeq(DOMAIN sessions) ELSE <<>>
         IN  [ transport |-> None,
               sessions |-> IF wr # None THEN EmptyDict ELSE sessions,
               io |-> [i \in 1..Len(closing) |-> "dtls.close"] \o <<"transport.close">>,
               sendto |-> [i \in 1..Len(closing) |->
                              _write(EngineAddr(sessions[closing[i]]), "Alert")] ]
    ELSE [transport |-> tr, sessions |-> sessions, io |-> <<>>, sendto |-> <<>>]

\* close() of the DTLS server
DtlsServerClose ==
    /\ closes < MaxCloses
    /\ LET r == dtls_server_close(self_transport, wrapper, active_sessions)
       IN  /\ self_transport' = r.transport
           /\ active_sessions' = r.sessions
           /\ io' = r.io
           /\ sendto' = r.sendto
    /\ engine_writes' = <<>>
    /\ server_op' = [op |-> "close", raised |-> "", peer |-> None]
    /\ closes' = closes + 1
    /\ UNCHANGED <<app_data, last_event, last_op>>
    /\ UNCHANGED <<server, wrapper, request_interfaces>>
    /\ UNCHANGED <<upstreamVars, dispatchVars, coapVars, factoryVars, procVars>>

\* DNSOverDTLSServer.connection_lost(exc), which the event loop calls once
\* the transport has been closed: the wrapper is dropped.
DtlsConnectionLost ==
    /\ self_transport = None
    /\ wrapper # None
    /\ wrapper' = None
    /\ io' = <<>>
    /\ server_op' = [op |-> "connection_lost", raised |-> "", peer |-> None]
    /\ UNCHANGED <<server, self_transport, request_interfaces, closes>>
    /\ UNCHANGED <<upstreamVars, dispatchVars, coapVars, dtlsVars, factoryVars, procVars>>

\* ClosableContext.close(): with request interfaces, the context is shut down
\* (an AttributeError of shutdown() is swallowed) and the registry replaced by
\* an empty one.  The result is the new request_interfaces and the calls made.
coap_close(ri) ==
    IF ri # <<>>
    THEN [request_interfaces |-> <<>>, io |-> <<"shutdown">>]
    ELSE [request_interfaces |-> ri, io |-> <<>>]

\* close() of the CoAP context
CoapClose ==
    /\ closes < MaxCloses
    /\ LET r == coap_close(request_interfaces)
       IN  /\ request_interfaces' = r.request_interfaces
           /\ io' = r.io
    /\ server_op' = [op |-> "close", raised |-> "", peer |-> None]
    /\ closes' = closes + 1
    /\ UNCHANGED <<server, self_transport, wrapper>>
    /\ UNCHANGED <<upstreamVars, dispatchVars, coapVars, dtlsVars, factoryVars, procVars>>

(***************************************************************************)
(* DNSUpstream construction and MockDNSUpstream                            *)
(***************************************************************************)

\* The transport arguments of DNSUpstream(...): the members of DNSTransport
\* and values that are none of them.
TransportArgs == DNSTransport \cup {"57", "None"}

\* The port arguments: omitted, or given.
PortArgs == {None, Some(52387)}

\* DNSUpstream.__init__(host, port, transport): the exception that leaves the
\* constructor, or the object's fields.  Without a port the transport is
\* checked against the three members; then _QUERY_FUNC[transport] is looked
\* up, which raises KeyError for any other value.
DNSUpstream_init(host, port, transport) ==
    IF port = None /\ transport \notin DNSTransport
    THEN [raised |-> "ValueError", object |-> None]
    ELSE IF transport \notin DNSTransport
    THEN [raised |-> "KeyError", object |-> None]
    ELSE [raised |-> "",
          object |-> Some([host |-> host,
                           port |-> IF port = None THEN 53 ELSE port[1],
                           transport |-> transport])]

\* DNSUpstream(host, port, transport) is evaluated.
UpstreamNew ==
    /\ built = None
    /\ \E port \in PortArgs, transport \in TransportArgs :
          built' = Some([port |-> port, transport |-> transport,
                         out |-> DNSUpstream_init("::1", port, transport)])
    /\ UNCHANGED mock
    /\ UNCHANGED <<upstreamVars, dispatchVars, coapVars, dtlsVars, hostVars,
                   factoryVars, singletonVars, mainVars,
                   callbackVars, shutdownVars>>

\* The caller drops what the construction left.
UpstreamDrop ==
    /\ built # None
    /\ built' = None
    /\ UNCHANGED mock
    /\ UNCHANGED <<upstreamVars, dispatchVars, coapVars, dtlsVars, hostVars,
                   factoryVars, singletonVars, mainVars,
                   callbackVars, shutdownVars>>

\* How many questions a query to the mock upstream carries at most.
MaxQuestions == 2

\* The questions of the queries sent to the mock upstream.
MockQuestions ==
    [name : {"example.org", "v6.example.org"}, rdclass : {"IN", "CH"},
     rdtype : {"A", "AAAA", "CNAME"}]

\* The queries sent to the mock upstream, in wire form.
MockQueries ==
    { to_wire([make_query(i, TRUE, CHOOSE q \in MockQuestions : TRUE)
                 EXCEPT !.question = qs]) :
        i \in QueryIds, qs \in {<<>>} \cup SeqsUpTo(MockQuestions, MaxQuestions) }

\* MockDNSUpstream._IN after construction: the packed address of each record
\* type that was configured.
MockRecords ==
    { [t \in types |-> IF t = "A" THEN <<10, 0, 0, 1>>
                       ELSE <<0, 0, 0, 0, 0, 0, 0, 0, 0, 0, 0, 0, 0, 0, 0, 1>>] :
        types \in SUBSET {"A", "AAAA"} }

\* The data looked up whatever the class of the question is.
mock_data_any_class(_IN, question) ==
    IF "A" \in DOMAIN _IN /\ question.rdtype = "A" THEN Some(_IN["A"])
    ELSE IF "AAAA" \in DOMAIN _IN /\ question.rdtype = "AAAA" THEN Some(_IN["AAAA"])
    ELSE None

\* The data MockDNSUpstream.query finds for a question: that of the A or the
\* AAAA record for a question of class IN and that type, when configured.
mock_data(_IN, question) ==
    IF question.rdclass = "IN"
    THEN IF "A" \in DOMAIN _IN /\ question.rdtype = "A" THEN Some(_IN["A"])
         ELSE IF "AAAA" \in DOMAIN _IN /\ question.rdtype = "AAAA" THEN Some(_IN["AAAA"])
         ELSE None
    ELSE None

\* The loop of MockDNSUpstream.query over the questions: an rrset of the
\* question's name, TTL 300 and the one rdata is appended for each question
\* that has data.
RECURSIVE mock_answers(_, _, _)
mock_answers(_IN, questions, answers) ==
    IF questions = <<>> THEN answers
    ELSE LET question == Head(questions)
             data == mock_data(_IN, question)
         IN  mock_answers(_IN, Tail(questions),
                 IF data # None
                 THEN Append(answers, [name |-> question.name, ttl |-> 300,
                                       rdclass |-> question.rdclass,
                                       rdtype |-> question.rdtype,
                                       rdata |-> <<data[1]>>])
                 ELSE answers)

\* MockDNSUpstream.query(query): the response to the parsed query with the
\* answers of the loop, in wire form.  No message is handed to the library.
mock_query(_IN, wire) ==
    LET qry == from_wire(wire)
        resp == make_response(qry, TRUE)
    IN  [ raised |-> "",
          wire |-> Some(to_wire([resp EXCEPT
                                   !.answer = mock_answers(_IN, resp.question, <<>>)])),
          sent |-> <<>>,
          per_attempt |-> <<>> ]

\* query() of a mock upstream with some records configured is awaited.
MockQuery ==
    /\ mock.pc = "idle"
    /\ \E _IN \in MockRecords, wire \in MockQueries :
          mock' = [pc |-> "done", _IN |-> _IN, wire |-> wire,
                   out |-> mock_query(_IN, wire)]
    /\ UNCHANGED built
    /\ UNCHANGED <<upstreamVars, dispatchVars, coapVars, dtlsVars, hostVars,
                   factoryVars, singletonVars, mainVars,
                   callbackVars, shutdownVars>>

(***************************************************************************)
(* The server factories and the configuration                              *)
(***************************************************************************)

DODTLS_PORT == 853

\* The sections a configuration file can give.  A section replaces the one of
\* the same name.
ConfigMappings ==
    { [s \in {"dtls_credentials"} |-> [k \in keys |-> IF k = "psk" THEN "secret"
                                                       ELSE "Client_identifier"]] :
        keys \in SUBSET {"client_identity", "psk"} }
      \cup { [s \in {"dtls"} |-> [k \in keys |-> 1]] :
               keys \in SUBSET {"server_hello_done_delay"} }
      \cup { [s \in {"transports"} |-> [k \in {"coap"} |-> [x \in {"path"} |-> path]]] :
               path \in {"/dns-query/", "dns/q"} }

\* The local_addr arguments of create_server: none, a host without a port,
\* a host and a port.
LocalAddrs == { None, Some(<<"::1", None>>), Some(<<"::1", Some(2304)>>) }

\* Config.add_config(config): self._sections.update(config)
add_config(sections, mapping) ==
    [s \in DOMAIN sections \cup DOMAIN mapping |->
        IF s \in DOMAIN mapping THEN mapping[s] ELSE sections[s]]

\* dict.get(key, default)
get(d, key, default) == IF key \in DOMAIN d THEN d[key] ELSE default

\* The two lookups config["dtls_credentials"]["client_identity"] and
\* config["dtls_credentials"]["psk"], in that order: the KeyError of the first
\* key that is missing, or the two values.
dtls_credentials(sections) ==
    LET missing(key) == [raised |-> "KeyError", key |-> key,
                         client_identity |-> None, psk |-> None]
    IN  IF "dtls_credentials" \notin DOMAIN sections
        THEN missing("dtls_credentials")
        ELSE IF "client_identity" \notin DOMAIN sections["dtls_credentials"]
        THEN missing("client_identity")
        ELSE IF "psk" \notin DOMAIN sections["dtls_credentials"]
        THEN missing("psk")
        ELSE [raised |-> "", key |-> "",
              client_identity |-> Some(sections["dtls_credentials"]["client_identity"]),
              psk |-> Some(sections["dtls_credentials"]["psk"])]

\* The except clause of both factories: the KeyError becomes a RuntimeError
\* whose message holds str(exc), the repr of the key.
credentials_checked(sections) ==
    LET c == dtls_credentials(sections)
    IN  IF c.raised = "KeyError"
        THEN [raised |-> "RuntimeError",
              message |-> "DTLS credential option '" \o c.key \o "' not found",
              client_identity |-> None, psk |-> None]
        ELSE [raised |-> "", message |-> "",
              client_identity |-> c.client_identity, psk |-> c.psk]

\* What a create_server call leaves: the exception that left it and no
\* handle, or the handle it returned.
Raised(kind, exc, message) ==
    [kind |-> kind, raised |-> exc, message |-> message, handle |-> None]
Returned(kind, handle) ==
    [kind |-> kind, raised |-> "", message |-> "", handle |-> Some(handle)]

\* BaseServerFactory.__init__(upstream_host, upstream_port, upstream_transport,
\* upstream_timeout) as the callers invoke it, with the upstream client as
\* the one positional argument: the four arguments are stored under their
\* own names.
BaseServerFactory_init(upstream) ==
    [upstream_host |-> upstream, upstream_port |-> None,
     upstream_transport |-> "UDP", upstream_timeout |-> None]

\* The upstream client main() and the tests hand to the factories.
TheUpstream == DNSUpstream_init("9.9.9.9", None, "UDP").object[1]

\* obj.name: the attribute, or AttributeError when the object has none of
\* that name.
getattr(obj, name) ==
    IF name \in DOMAIN obj THEN [raised |-> "", value |-> Some(obj[name])]
    ELSE [raised |-> "AttributeError", value |-> None]

\* DNSOverDTLSServerFactory.create_server: the port defaults to DODTLS_PORT;
\* the endpoint is made with _create_server_protocol as its protocol factory,
\* which reads the credentials, raising RuntimeError, and then constructs
\* DNSOverDTLSServer(self), whose __init__ reads factory.dns_upstream.
dtls_create_server(factory, sections, local_addr) ==
    LET addr == IF local_addr = None THEN <<"localhost", Some(DODTLS_PORT)>>
                ELSE IF local_addr[1][2] = None
                THEN <<local_addr[1][1], Some(DODTLS_PORT)>>
                ELSE local_addr[1]
        c == credentials_checked(sections)
        dns_upstream == getattr(factory, "dns_upstream")
    IN  IF c.raised # "" THEN Raised("dtls", c.raised, c.message)
        ELSE IF dns_upstream.raised # "" THEN Raised("dtls", dns_upstream.raised, "")
        ELSE Returned("dtls", [local_addr |-> addr, path |-> <<>>,
                               client_identity |-> c.client_identity,
                               psk |-> c.psk, send_sleep |-> 0,
                               dns_upstream |-> dns_upstream.value])

\* DNSOverCoAPServerFactory.create_server: the resource path comes from
\* transports.coap.path and DNSQueryResource(self) is constructed for it,
\* whose __init__ reads factory.dns_upstream; then the credentials are read,
\* the server context is created with the delay of
\* dtls.server_hello_done_delay and the credentials are loaded into it.
coap_create_server(factory, sections, local_addr) ==
    LET addr == IF local_addr = None THEN <<"localhost", None>> ELSE local_addr[1]
        path == split(strip(get(get(get(sections, "transports", EmptyDict),
                                        "coap", EmptyDict), "path", "dns"), "/"), "/")
        dns_upstream == getattr(factory, "dns_upstream")
        c == credentials_checked(sections)
    IN  IF dns_upstream.raised # "" THEN Raised("coap", dns_upstream.raised, "")
        ELSE IF c.raised # "" THEN Raised("coap", c.raised, c.message)
        ELSE Returned("coap", [local_addr |-> addr, path |-> path,
                               client_identity |-> c.client_identity,
                               psk |-> c.psk,
                               send_sleep |-> get(get(sections, "dtls", EmptyDict),
                                                  "server_hello_done_delay", 0),
                               dns_upstream |-> dns_upstream.value])

\* How many references to the configuration callers hold at most.
MaxRefs == 2

\* A metaclass call that constructs a new object every time and registers it.
Singleton_call_fresh(insts, objs) ==
    [instances |-> DictSet(insts, "Config", Len(objs) + 1),
     objects |-> Append(objs, EmptyDict), ref |-> Len(objs) + 1]

\* _Singleton.__call__(cls) for cls = Config: the first call constructs the
\* object (Config.__init__ sets _sections = {}) and registers it in
\* _instances; every call returns what is registered.
Singleton_call(insts, objs) ==
    IF "Config" \notin DOMAIN insts
    THEN [instances |-> DictSet(insts, "Config", Len(objs) + 1),
          objects |-> Append(objs, EmptyDict), ref |-> Len(objs) + 1]
    ELSE [instances |-> insts, objects |-> objs, ref |-> insts["Config"]]

\* What a Config() call made now would show: the _sections of the object it
\* returns.
SectionsOf(insts, objs) ==
    LET c == Singleton_call(insts, objs) IN c.objects[c.ref]

\* Some caller evaluates Config() and keeps the reference; seen are the
\* sections the reference showed at that moment.
ConfigCall ==
    /\ Len(refs) < MaxRefs
    /\ LET c == Singleton_call(instances, objects)
       IN  /\ instances' = c.instances
           /\ objects' = c.objects
           /\ refs' = Append(refs, [object |-> c.ref, seen |-> DOMAIN c.objects[c.ref]])
           /\ config' = SectionsOf(c.instances, c.objects)
    /\ UNCHANGED <<created, mockVars, mainVars, callbackVars, shutdownVars>>
    /\ UNCHANGED <<upstreamVars, dispatchVars, coapVars, dtlsVars, hostVars>>

\* add_config is called through a reference a caller holds.
ConfigAddConfig ==
    /\ \E r \in 1..Len(refs), mapping \in ConfigMappings :
          /\ objects' = [objects EXCEPT
                            ![refs[r].object] = add_config(@, mapping)]
          /\ config' = SectionsOf(instances, objects')
    /\ UNCHANGED <<instances, refs, created, mockVars, mainVars, callbackVars, shutdownVars>>
    /\ UNCHANGED <<upstreamVars, dispatchVars, coapVars, dtlsVars, hostVars>>

\* A configuration file or the command line adds sections:
\* Config().add_config(mapping).
AddConfig ==
    /\ \E mapping \in ConfigMappings :
          LET c == Singleton_call(instances, objects)
          IN  /\ instances' = c.instances
              /\ objects' = [c.objects EXCEPT ![c.ref] = add_config(@, mapping)]
              /\ config' = SectionsOf(c.instances, objects')
    /\ UNCHANGED <<created, refs, mockVars, mainVars, callbackVars, shutdownVars>>
    /\ UNCHANGED <<upstreamVars, dispatchVars, coapVars, dtlsVars, hostVars>>

\* create_server of the DTLS factory is awaited.
DtlsCreateServer ==
    /\ \E local_addr \in LocalAddrs :
          created' = Some(dtls_create_server(BaseServerFactory_init(TheUpstream),
                                             config, local_addr))
    /\ LET c == Singleton_call(instances, objects)
       IN  instances' = c.instances /\ objects' = c.objects
    /\ UNCHANGED <<config, refs, mockVars, mainVars, callbackVars, shutdownVars>>
    /\ UNCHANGED <<upstreamVars, dispatchVars, coapVars, dtlsVars, hostVars>>

\* create_server of the CoAP factory is awaited.
CoapCreateServer ==
    /\ \E local_addr \in LocalAddrs :
          created' = Some(coap_create_server(BaseServerFactory_init(TheUpstream),
                                             config, local_addr))
    /\ LET c == Singleton_call(instances, objects)
       IN  instances' = c.instances /\ objects' = c.objects
    /\ UNCHANGED <<config, refs, mockVars, mainVars, callbackVars, shutdownVars>>
    /\ UNCHANGED <<upstreamVars, dispatchVars, coapVars, dtlsVars, hostVars>>

(***************************************************************************)
(* cli.proxy: the command line, get_config and main                        *)
(***************************************************************************)

DNS_PORT == 53

\* DNSOverUDPServerFactory.create_server: the port defaults to DNS_PORT; the
\* endpoint is made with _create_server_protocol as its protocol factory,
\* which constructs DNSOverUDPServer(self), whose __init__ reads
\* factory.dns_upstream; then do_not_auto_flow_label is applied, which only
\* linux supports.
udp_create_server(factory, sections, local_addr, platform) ==
    LET addr == IF local_addr = None THEN <<"localhost", Some(DNS_PORT)>>
                ELSE IF local_addr[1][2] = None
                THEN <<local_addr[1][1], Some(DNS_PORT)>>
                ELSE local_addr[1]
        dns_upstream == getattr(factory, "dns_upstream")
    IN  IF dns_upstream.raised # "" THEN Raised("udp", dns_upstream.raised, "")
        ELSE IF get(sections, "do_not_auto_flow_label", FALSE) /\ platform # "linux"
        THEN Raised("udp", "RuntimeError",
                    platform \o " not supported for do_not_auto_flow_label")
        ELSE Returned("udp", [local_addr |-> addr, path |-> <<>>,
                              client_identity |-> None, psk |-> None,
                              send_sleep |-> 0,
                              dns_upstream |-> dns_upstream.value])

\* The decimal digits, the value of a digit being its position less one.
Digits == "0123456789"
DigitChars == { SubSeq(Digits, i, i) : i \in 1..Len(Digits) }
DigitValue(c) == (CHOOSE i \in 1..Len(Digits) : SubSeq(Digits, i, i) = c) - 1

\* The number a string of digits denotes
RECURSIVE digits_value(_)
digits_value(str) ==
    IF Len(str) = 0 THEN 0
    ELSE 10 * digits_value(SubSeq(str, 1, Len(str) - 1))
           + DigitValue(SubSeq(str, Len(str), Len(str)))

\* int(str) for a string without sign and blanks: ValueError unless it is a
\* non-empty string of digits.
int(str) ==
    IF Len(str) > 0 /\ \A k \in 1..Len(str) : SubSeq(str, k, k) \in DigitChars
    THEN [raised |-> "", value |-> digits_value(str)]
    ELSE [raised |-> "ValueError", value |-> 0]

\* HostPortAction.DEFAULT_PORTS
DEFAULT_PORTS(dest) ==
    IF dest = "dtls" THEN Some(DODTLS_PORT)
    ELSE IF dest = "udp" THEN Some(DNS_PORT)
    ELSE None

\* The namespace parse_args starts from: no option has set anything.  order
\* lists the attributes of namespace.transports in the order they were set.
EmptyNamespace ==
    [config_file |-> None, transports |-> EmptyDict, order |-> <<>>,
     dtls_credentials |-> None, upstream_dns |-> None]

\* HostPortAction.__call__ for the option with the given dest: more than two
\* values raise ValueError, the host defaults to localhost and the port to
\* the transport's default, a given port goes through int().
HostPortAction(namespace, dest, values) ==
    LET port == IF Len(values) < 2
                THEN [raised |-> "", value |-> DEFAULT_PORTS(dest)]
                ELSE LET p == int(values[2])
                     IN  [raised |-> p.raised, value |-> Some(p.value)]
        host == IF Len(values) = 0 THEN "localhost" ELSE values[1]
    IN  IF Len(values) > 2 THEN [raised |-> "ValueError", namespace |-> namespace]
        ELSE IF port.raised # "" THEN [raised |-> port.raised, namespace |-> namespace]
        ELSE [raised |-> "",
              namespace |-> [namespace EXCEPT
                  !.transports = DictSet(@, dest, [host |-> host, port |-> port.value]),
                  !.order = IF dest \in DOMAIN namespace.transports THEN @
                            ELSE Append(@, dest)]]

\* UpstreamAction.TRANSPORTS
TRANSPORTS ==
    [t \in {"tcp", "udp", "udp+tcp"} |->
        IF t = "tcp" THEN "TCP" ELSE IF t = "udp" THEN "UDP" ELSE "UDP_TCP_FALLBACK"]

\* UpstreamAction.__call__: more than three values raise ValueError; with
\* three the first names the transport (KeyError when unknown); ports go
\* through int().
UpstreamAction(namespace, values) ==
    LET port == IF Len(values) < 2 THEN [raised |-> "", value |-> None]
                ELSE LET p == int(values[Len(values)])
                     IN  [raised |-> p.raised, value |-> Some(p.value)]
    IN  IF Len(values) > 3 THEN [raised |-> "ValueError", namespace |-> namespace]
        ELSE IF Len(values) = 3 /\ values[1] \notin DOMAIN TRANSPORTS
        THEN [raised |-> "KeyError", namespace |-> namespace]
        ELSE IF port.raised # "" THEN [raised |-> port.raised, namespace |-> namespace]
        ELSE [raised |-> "",
              namespace |-> [namespace EXCEPT !.upstream_dns =
                  Some(IF Len(values) = 3
                       THEN [host |-> values[2], port |-> port.value,
                             transport |-> TRANSPORTS[values[1]]]
                       ELSE [host |-> values[1], port |-> port.value,
                             transport |-> "UDP"])]]

\* DTLSCredentialsAction.__call__ (nargs = 2)
DTLSCredentialsAction(namespace, values) ==
    [raised |-> "",
     namespace |-> [namespace EXCEPT !.dtls_credentials =
         Some([k \in {"client_identity", "psk"} |->
                  IF k = "client_identity" THEN values[1] ELSE values[2]])]]

\* The action argparse runs for one option of the command line.
option_action(namespace, option) ==
    IF option.opt \in {"-u", "-d", "-c"}
    THEN HostPortAction(namespace,
                        IF option.opt = "-u" THEN "udp"
                        ELSE IF option.opt = "-d" THEN "dtls" ELSE "coap",
                        option.values)
    ELSE IF option.opt = "-U" THEN UpstreamAction(namespace, option.values)
    ELSE IF option.opt = "--dtls-credentials"
    THEN DTLSCredentialsAction(namespace, option.values)
    ELSE [raised |-> "",
          namespace |-> [namespace EXCEPT !.config_file = Some(option.file)]]

\* parser.parse_args(): the options' actions run in command-line order; the
\* exception of an action leaves parse_args.
parse_step(parsed, option) ==
    IF parsed.raised # "" THEN parsed ELSE option_action(parsed.namespace, option)
parse_args(argv, namespace) ==
    LET parsed[i \in 0..Len(argv)] ==
            IF i = 0 THEN [raised |-> "", namespace |-> namespace]
            ELSE parse_step(parsed[i - 1], argv[i])
    IN  parsed[Len(argv)]

\* The mapping Config.add_args_config hands to add_config: the attributes of
\* the namespace that are not None, a nested namespace as its dict.
args_config(namespace) ==
    LET keys == (IF namespace.order # <<>> THEN {"transports"} ELSE {})
                  \cup (IF namespace.dtls_credentials # None
                        THEN {"dtls_credentials"} ELSE {})
                  \cup (IF namespace.upstream_dns # None THEN {"upstream_dns"} ELSE {})
    IN  [k \in keys |->
            IF k = "transports" THEN namespace.transports
            ELSE IF k = "dtls_credentials" THEN namespace.dtls_credentials[1]
            ELSE namespace.upstream_dns[1]]

\* get_config(args): the YAML file's sections are added to Config(), then the
\* command line's; RuntimeError without an upstream_dns or a transports
\* section.
get_config(namespace, insts, objs) ==
    LET c == Singleton_call(insts, objs)
        filed == IF namespace.config_file = None THEN c.objects[c.ref]
                 ELSE add_config(c.objects[c.ref], namespace.config_file[1])
        sections == add_config(filed, args_config(namespace))
        objs2 == [c.objects EXCEPT ![c.ref] = sections]
        out(exc, msg) == [raised |-> exc, message |-> msg, instances |-> c.instances,
                          objects |-> objs2, sections |-> sections]
    IN  IF "upstream_dns" \notin DOMAIN sections
        THEN out("RuntimeError", "No upstream DNS server provided")
        ELSE IF "transports" \notin DOMAIN sections
        THEN out("RuntimeError", "No proxy config provided")
        ELSE out("", "")

\* get_factory(upstream, transport).create_server(loop, local_addr)
create_server(transport, upstream, sections, local_addr, platform) ==
    LET factory == BaseServerFactory_init(upstream)
    IN  IF transport = "udp"
        THEN udp_create_server(factory, sections, local_addr, platform)
        ELSE IF transport = "dtls"
        THEN dtls_create_server(factory, sections, local_addr)
        ELSE coap_create_server(factory, sections, local_addr)

\* The loop of main over config['transports'].items(): each server created is
\* appended to servers; the exception of a create_server leaves main.
server_started(started, r) ==
    [raised |-> r.raised, message |-> r.message,
     servers |-> IF r.raised # "" THEN started.servers
                 ELSE Append(started.servers, r.handle[1]),
     calls |-> Append(started.calls, r)]
start_server(started, transport, args, upstream, sections, platform) ==
    IF started.raised # "" THEN started
    ELSE server_started(started,
                        create_server(transport, upstream, sections,
                                      Some(<<args.host, args.port>>), platform))
start_servers(order, upstream, sections, platform, srvs, calls) ==
    LET started[i \in 0..Len(order)] ==
            IF i = 0
            THEN [raised |-> "", message |-> "", servers |-> srvs, calls |-> calls]
            ELSE start_server(started[i - 1], order[i],
                              sections["transports"][order[i]],
                              upstream, sections, platform)
    IN  started[Len(order)]

\* What a run of main leaves: the exception that left it, Config's
\* registry and objects, the servers list and the create_server calls made.
main_result(exc, msg, insts, objs, srvs, calls) ==
    [raised |-> exc, message |-> msg, instances |-> insts, objects |-> objs,
     servers |-> srvs, calls |-> calls]

\* main() left by the exception of parse_args: nothing else has run.  With
\* eager set the sections of the options parsed so far were added to the
\* configuration as they were parsed.
main_unparsed(parsed, c, insts, objs, srvs, eager) ==
    IF eager
    THEN main_result(parsed.raised, "", c.instances,
                     [c.objects EXCEPT ![c.ref] =
                         add_config(@, args_config(parsed.namespace))],
                     srvs, <<>>)
    ELSE main_result(parsed.raised, "", insts, objs, srvs, <<>>)

\* The upstream client main constructs: the mock when the configuration has
\* a mock_dns_upstream section, else DNSUpstream(**config['upstream_dns']).
main_upstream(sections) ==
    IF "mock_dns_upstream" \in DOMAIN sections
    THEN [_IN |-> EmptyDict]
    ELSE DNSUpstream_init(sections["upstream_dns"].host,
                          sections["upstream_dns"].port,
                          sections["upstream_dns"].transport).object[1]

\* main() after its servers were started, or one of them failed to.
main_started(g, started) ==
    main_result(started.raised, started.message, g.instances, g.objects,
                started.servers, started.calls)

\* main() once get_config has returned or raised.
main_configured(order, g, platform, srvs) ==
    IF g.raised # ""
    THEN main_result(g.raised, g.message, g.instances, g.objects, srvs, <<>>)
    ELSE main_started(g, start_servers(order, main_upstream(g.sections),
                                       g.sections, platform, srvs, <<>>))

\* main() once parse_args has returned or raised.
main_parsed(parsed, platform, insts, objs, srvs, eager) ==
    IF parsed.raised # ""
    THEN main_unparsed(parsed, Singleton_call(insts, objs), insts, objs, srvs, eager)
    ELSE main_configured(parsed.namespace.order,
                         get_config(parsed.namespace, insts, objs), platform, srvs)

\* main(): parse_args, get_config, the upstream client, then the servers.
main_steps(argv, platform, insts, objs, srvs, eager) ==
    main_parsed(parse_args(argv, EmptyNamespace), platform, insts, objs, srvs, eager)

\* main() that adds each option's section to the configuration as it is
\* parsed.
main_eager(argv, platform, insts, objs, srvs) ==
    main_steps(argv, platform, insts, objs, srvs, TRUE)

\* main() as cli.proxy has it.
main_run(argv, platform, insts, objs, srvs) ==
    main_steps(argv, platform, insts, objs, srvs, FALSE)

\* How many options a command line carries at most.
MaxOptions == 3

\* The contents of the YAML files given with -C.
ConfigFiles ==
    { [k \in {"test"} |-> "foobar"],
      [k \in {"test", "mock_dns_upstream"} |-> IF k = "test" THEN "foobar" ELSE EmptyDict],
      [k \in {"do_not_auto_flow_label"} |-> TRUE] }

\* The options of the command lines, each with its positional values.
MainOptions ==
    [opt : {"-u"}, file : {EmptyDict},
     values : {<<>>, <<"localhost", "5353">>, <<"localhost", "53", "more">>,
               <<"localhost", "more">>}]
      \cup [opt : {"-d", "-c"}, file : {EmptyDict}, values : {<<>>}]
      \cup [opt : {"-U"}, file : {EmptyDict},
            values : {<<"9.9.9.9">>, <<"tcp", "9.9.9.9", "53">>,
                      <<"udp", "9.9.9.9", "53", "more">>}]
      \cup [opt : {"--dtls-credentials"}, file : {EmptyDict},
            values : {<<"client_identifier", "secretPSK">>}]
      \cup [opt : {"-C"}, file : ConfigFiles, values : {<<>>}]

\* The command lines: up to MaxOptions options, no option given twice.
Argvs ==
    { argv \in {<<>>} \cup SeqsUpTo(MainOptions, MaxOptions) :
        \A i, j \in 1..Len(argv) : i # j => argv[i].opt # argv[j].opt }

\* sys.platform
Platforms == {"linux", "darwin"}

\* main() runs once in a process, over some command line.
MainRun ==
    /\ main.pc = "idle"
    /\ \E argv \in Argvs, platform \in Platforms :
          LET r == main_run(argv, platform, instances, objects, servers)
          IN  /\ main' = [pc |-> "done", argv |-> argv, raised |-> r.raised,
                          message |-> r.message, calls |-> r.calls]
              /\ instances' = r.instances
              /\ objects' = r.objects
              /\ servers' = r.servers
              /\ config' = SectionsOf(r.instances, r.objects)
    /\ UNCHANGED <<created, refs, mockVars, callbackVars, shutdownVars>>
    /\ UNCHANGED <<upstreamVars, dispatchVars, coapVars, dtlsVars, hostVars>>

\* The process ends: the next one starts with the module's servers list
\* empty and no Config constructed.
MainExit ==
    /\ main.pc = "done"
    /\ main' = [pc |-> "idle"]
    /\ instances' = EmptyDict
    /\ objects' = <<>>
    /\ servers' = <<>>
    /\ config' = EmptyDict
    /\ UNCHANGED <<created, refs, mockVars, callbackVars, shutdownVars>>
    /\ UNCHANGED <<upstreamVars, dispatchVars, coapVars, dtlsVars, hostVars>>

(***************************************************************************)

(***************************************************************************)
(* The write callback of the DTLS engine: TinyDTLSWrapper._write           *)
(***************************************************************************)

_CT_HANDSHAKE == 22
_HT_SERVER_HELLO_DONE == 14

MaxRecordLen == 15
MaxDelay == 2

\* The records the engine hands to the callback, as octets: their length,
\* their content type (octet 0) and the octets at offsets 12 and 13.
Record(len, ct, b12, b13) ==
    [i \in 1..len |-> IF i = 1 THEN ct
                      ELSE IF i = 13 THEN b12
                      ELSE IF i = 14 THEN b13 ELSE 0]

Records ==
    { Record(len, ct, b12, b13) :
        len \in {1, 13} \cup 14..MaxRecordLen,
        ct \in {_CT_HANDSHAKE, 23},
        b12 \in {0, _HT_SERVER_HELLO_DONE},
        b13 \in {0, _HT_SERVER_HELLO_DONE} }

\* The configurations the callback can find: no dtls section, a dtls section
\* without the delay, and a delay that is negative, zero or positive.
WriteConfigs ==
    {EmptyDict} \cup {[s \in {"dtls"} |-> EmptyDict]}
      \cup { [s \in {"dtls"} |-> [k \in {"server_hello_done_delay"} |-> d]] :
               d \in (-1)..MaxDelay }

\* Config().get("dtls", {}).get("server_hello_done_delay")
server_hello_done_delay(sections) ==
    LET dtls == get(sections, "dtls", EmptyDict)
    IN  IF "server_hello_done_delay" \in DOMAIN dtls
        THEN Some(dtls["server_hello_done_delay"])
        ELSE None

\* The test of _write for a ServerHelloDone record.
is_server_hello_done(data) ==
    /\ Len(data) > 13
    /\ data[1] = _CT_HANDSHAKE
    /\ data[14] = _HT_SERVER_HELLO_DONE

\* "if delay:" of _write: a value is there and it is not zero.
delay_applies(delay) == delay # None /\ delay[1] # 0

\* _write(addr, data) with the configuration it reads: the sleeps it makes,
\* the datagrams it sends and what it returns.  time.sleep raises ValueError
\* for a negative length, before anything is sent.
write_callback(sections, addr, data) ==
    LET delay == IF is_server_hello_done(data)
                 THEN server_hello_done_delay(sections) ELSE None
    IN  IF delay_applies(delay) /\ delay[1] < 0
        THEN [raised |-> Some("ValueError"), slept |-> <<>>, sendto |-> <<>>,
              ret |-> None]
        ELSE [raised |-> None,
              slept |-> IF delay_applies(delay) THEN <<delay[1]>> ELSE <<>>,
              sendto |-> <<_write(addr, data)>>,
              ret |-> Some(Len(data))]

\* The engine calls the callback with a record for a peer.
WriteCallback ==
    /\ \E sections \in WriteConfigs, addr \in {<<"::1", 853>>, <<"10.0.0.2", 853>>},
          data \in Records :
          written' = [pc |-> "done", sections |-> sections, addr |-> addr, data |-> data,
                 out |-> write_callback(sections, addr, data)]
    /\ UNCHANGED <<decoded, shutdown>>
    /\ UNCHANGED <<upstreamVars, dispatchVars, coapVars, dtlsVars, hostVars,
                   factoryVars, mockVars, singletonVars, mainVars>>

(***************************************************************************)
(* The GET of a byte string as the clients encode it                       *)
(***************************************************************************)

MaxQueryLen == 4

\* The byte strings sent, of every length up to MaxQueryLen.
QueryOctets == {0, 65, 255}
ByteStrings == UNION { [1..n -> QueryOctets] : n \in 0..MaxQueryLen }

\* base64.urlsafe_b64encode(query).decode().strip("="), the value the clients
\* put into the dns parameter.
query_code_of(q) == strip(urlsafe_b64encode(q), "=")

\* A client sends GET ?dns=<code> for a byte string and the handler decodes it.
GetDecode ==
    /\ decoded.pc = "idle"
    /\ \E q \in ByteStrings :
          LET code == query_code_of(q)
          IN  decoded' = [pc |-> "done", q |-> q, code |-> code,
                          padded |-> repad(code),
                          out |-> render_get_decoded([uri_query |-> <<"dns=" \o code>>])]
    /\ UNCHANGED <<written, shutdown>>
    /\ UNCHANGED <<upstreamVars, dispatchVars, coapVars, dtlsVars, hostVars,
                   factoryVars, mockVars, singletonVars, mainVars>>

\* The handler has returned and the next request can come.
GetReturn ==
    /\ decoded.pc = "done"
    /\ decoded' = [pc |-> "idle"]
    /\ UNCHANGED <<written, shutdown>>
    /\ UNCHANGED <<upstreamVars, dispatchVars, coapVars, dtlsVars, hostVars,
                   factoryVars, mockVars, singletonVars, mainVars>>

(***************************************************************************)
(* cli.proxy.close_servers                                                  *)
(***************************************************************************)

\* The servers a process registers: one for each transport of
\* config['transports'], each bound to a port of its own choice.
RegisteredServers == [kind : {"udp", "dtls", "coap"}, port : {53, 5353}]

\* A list.remove that empties the list.
list_remove_all(list, x) == [raised |-> "", list |-> <<>>]

\* list.remove(x): the list without the first element equal to x, a
\* ValueError when there is none.
list_remove(list, x) ==
    IF \A k \in 1..Len(list) : list[k] # x
    THEN [raised |-> "ValueError", list |-> list]
    ELSE LET k == CHOOSE j \in 1..Len(list) :
                     list[j] = x /\ \A m \in 1..(j - 1) : list[m] # x
         IN  [raised |-> "", list |-> SubSeq(list, 1, k - 1)
                                        \o SubSeq(list, k + 1, Len(list))]

\* servers.append(server): a server that was created is registered, one for
\* a transport at most.
RegisterServer ==
    /\ shutdown.pc = "idle"
    /\ main.pc = "idle"
    /\ \E srv \in RegisteredServers :
          /\ \A k \in 1..Len(servers) : servers[k].kind # srv.kind
          /\ servers' = Append(servers, srv)
    /\ UNCHANGED <<main, shutdown, callbackVars>>
    /\ UNCHANGED <<upstreamVars, dispatchVars, coapVars, dtlsVars, hostVars,
                   factoryVars, mockVars, singletonVars>>

\* close_servers() is called: the loop runs over list(servers), a copy.
CloseServersCall ==
    /\ shutdown.pc = "idle"
    /\ shutdown' = [pc |-> "iterating", registered |-> servers, todo |-> servers,
                    closed |-> <<>>]
    /\ UNCHANGED <<mainVars, callbackVars>>
    /\ UNCHANGED <<upstreamVars, dispatchVars, coapVars, dtlsVars, hostVars,
                   factoryVars, mockVars, singletonVars>>

\* await server.close() for the next server of the copy returns.
CloseServersClose ==
    /\ shutdown.pc = "iterating"
    /\ shutdown.todo # <<>>
    /\ shutdown' = [shutdown EXCEPT !.pc = "closed",
                                    !.closed = Append(@, Head(shutdown.todo))]
    /\ UNCHANGED <<mainVars, callbackVars>>
    /\ UNCHANGED <<upstreamVars, dispatchVars, coapVars, dtlsVars, hostVars,
                   factoryVars, mockVars, singletonVars>>

\* servers.remove(server) for the server just closed.
CloseServersRemove ==
    /\ shutdown.pc = "closed"
    /\ LET r == list_remove(servers, Head(shutdown.todo))
       IN  /\ servers' = r.list
           /\ shutdown' = [shutdown EXCEPT
                              !.pc = IF r.raised # "" THEN "raised" ELSE "iterating",
                              !.todo = Tail(@)]
    /\ UNCHANGED <<main, callbackVars>>
    /\ UNCHANGED <<upstreamVars, dispatchVars, coapVars, dtlsVars, hostVars,
                   factoryVars, mockVars, singletonVars>>

\* The loop is over and close_servers() returns.
CloseServersReturn ==
    /\ shutdown.pc = "iterating"
    /\ shutdown.todo = <<>>
    /\ shutdown' = [shutdown EXCEPT !.pc = "done"]
    /\ UNCHANGED <<mainVars, callbackVars>>
    /\ UNCHANGED <<upstreamVars, dispatchVars, coapVars, dtlsVars, hostVars,
                   factoryVars, mockVars, singletonVars>>

InitUpstream == uq = UqIdle
InitDispatch ==
    /\ tasks = <<>>
    /\ ready = <<>>
    /\ completed = <<>>
    /\ delivered = <<>>
    /\ task_errors = <<>>
InitCoap ==
    /\ pending = EmptyDict
    /\ futures = <<>>
    /\ handlers = <<>>
InitDtls ==
    /\ active_sessions = EmptyDict
    /\ app_data = None
    /\ last_event = None
    /\ last_op = [op |-> "init", arg |-> SessionArg(Session(<<"", 0>>)), ret |-> None]
    /\ engine_writes = <<>>
    /\ sendto = <<>>


\* The server handle as create_server returns it: connection_made has stored
\* the transport and, in the DTLS server, built the wrapper; the CoAP context
\* has its request interfaces.
InitHost(k) ==
    /\ server = k
    /\ self_transport \in IF k = "dtls" THEN { Some(tr) : tr \in Transports }
                          ELSE IF k = "udp" THEN { Some("inet6") }
                          ELSE { None }
    /\ wrapper = IF k = "dtls" THEN Some("TinyDTLSWrapper") ELSE None
    /\ request_interfaces = IF k = "coap" THEN <<"udp6", "tinydtls_server">> ELSE <<>>
    /\ closes = 0
    /\ io = <<>>
    /\ server_op = [op |-> "create_server", raised |-> "", peer |-> None]

\* The configuration before any section is added; no server created yet.
InitFactory ==
    /\ config = EmptyDict
    /\ created = None

\* No mock query and no construction has been made, no Config object exists,
\* main has not run.
InitProcess ==
    /\ mock = [pc |-> "idle"]
    /\ built = None
    /\ instances = EmptyDict
    /\ objects = <<>>
    /\ refs = <<>>
    /\ servers = <<>>
    /\ main = [pc |-> "idle"]
    /\ written = [pc |-> "idle"]
    /\ decoded = [pc |-> "idle"]
    /\ shutdown = [pc |-> "idle", closed |-> <<>>]

InitOf(k) ==
    /\ InitUpstream /\ InitDispatch /\ InitCoap /\ InitDtls /\ InitHost(k)
    /\ InitFactory /\ InitProcess

Init == InitOf("udp")

NextUpstream == UpstreamCall \/ UpstreamReturn \/ UpstreamReset

\* One DNSUpstream.query call after another.
SpecUpstream == Init /\ [][NextUpstream]_vars

NextDispatch == UdpDatagramReceived \/ UdpUpstreamResolves \/ UdpRunReady

\* A UDP server dispatching the queries it receives.
SpecDispatch == Init /\ [][NextDispatch]_vars

NextDtls ==
    \/ DtlsConnect \/ DtlsClose \/ DtlsHandleMessage \/ DtlsWrite
    \/ DtlsIsConnected \/ DtlsSessions

\* A DTLS wrapper used by its owner, one operation after another.
SpecDtls == Init /\ [][NextDtls]_vars

NextCoap == CoapRequest \/ CoapUpstreamResolves \/ CoapRunReady \/ HandlerResume

\* A CoAP resource serving requests.
SpecCoap == InitOf("coap") /\ [][NextCoap]_vars

\* The caller is done with the mock's response.
MockReset ==
    /\ mock.pc = "done"
    /\ mock' = [pc |-> "idle"]
    /\ UNCHANGED built
    /\ UNCHANGED <<upstreamVars, dispatchVars, coapVars, dtlsVars, hostVars,
                   factoryVars, singletonVars, mainVars,
                   callbackVars, shutdownVars>>

NextClient == UpstreamNew \/ UpstreamDrop \/ MockQuery \/ MockReset

\* Upstream clients are constructed and the mock upstream is queried.
SpecClient == Init /\ [][NextClient]_vars

NextSingleton == ConfigCall \/ ConfigAddConfig \/ AddConfig

\* Callers obtain the configuration and add sections to it.
SpecSingleton == Init /\ [][NextSingleton]_vars

\* The command-line program: main() runs over some command line.
NextMain == MainRun \/ MainExit
SpecMain == Init /\ [][NextMain]_vars

NextWrite == WriteCallback

SpecWrite == Init /\ [][NextWrite]_vars

NextGet == GetDecode \/ GetReturn

SpecGet == Init /\ [][NextGet]_vars

NextShutdown ==
    \/ RegisterServer \/ CloseServersCall \/ CloseServersClose
    \/ CloseServersRemove \/ CloseServersReturn

SpecShutdown == Init /\ [][NextShutdown]_vars

NextFactory == AddConfig \/ DtlsCreateServer \/ CoapCreateServer

\* The configuration and the factories' create_server.
SpecFactory == Init /\ [][NextFactory]_vars

NextCoapRender == CoapRender \/ CoapUpstreamResolves \/ CoapRunReady \/ HandlerResume

\* A CoAP resource serving requests of every kind.
SpecCoapRender == InitOf("coap") /\ [][NextCoapRender]_vars

NextCoapAnswered == CoapRequest \/ CoapUpstreamAnswers \/ CoapRunReady \/ HandlerResume

\* A CoAP resource serving requests over an upstream that answers every
\* query, on an event loop that runs every callback that is ready: an upstream
\* query in flight resolves, a ready task runs, a handler whose Future is done
\* resumes.
SpecCoapFair ==
    /\ InitOf("coap")
    /\ [][NextCoapAnswered]_vars
    /\ WF_vars(CoapUpstreamAnswers)
    /\ WF_vars(CoapRunReady)
    /\ WF_vars(HandlerResume)

NextUdpServer ==
    /\ server = "udp"
    /\ (UdpDatagramReceived \/ UdpUpstreamResolves \/ UdpRunReady \/ UdpClose)

NextDtlsServer ==
    /\ server = "dtls"
    /\ (DtlsDatagramReceived \/ DtlsUpstreamResolves \/ DtlsRunReady
          \/ DtlsServerClose \/ DtlsConnectionLost)

NextCoapContext ==
    /\ server = "coap"
    /\ (CoapRequest \/ CoapUpstreamResolves \/ CoapRunReady \/ HandlerResume
          \/ CoapClose)

NextServer == NextUdpServer \/ NextDtlsServer \/ NextCoapContext

\* A server handle of one of the three variants, from its creation on:
\* serving queries, being closed, and being closed again.
SpecServer == (\E k \in ServerKinds : InitOf(k)) /\ [][NextServer]_vars

(***************************************************************************)
(* Properties of DNSUpstream.query                                          *)
(***************************************************************************)

\* C1: whenever query(q) returns, for every transport and whether the
\* response is the upstream's answer or a synthesized SERVFAIL, the returned
\* response carries q's id; a query with id 0 gets a response with id 0.
C1_ResponseIdEqualsQueryId ==
    (uq.pc = "done" /\ uq.out.raised = "")
        => from_wire(uq.out.wire[1]).id = from_wire(uq.wire).id

\* C2: on each transport, when the upstream attempt fails with a timeout,
\* another DNS exception or a connection refusal, query() raises nothing and
\* returns a SERVFAIL response.
C2_FailureGivesServfail ==
    (uq.pc = "done" /\ Len(uq.out.sent) > 0
       /\ uq.attempts[1].kind \in {"DNSException", "ConnectionRefusedError"})
        => /\ uq.out.raised = ""
           /\ from_wire(uq.out.wire[1]).rcode = SERVFAIL

(***************************************************************************)
(* Properties of the dispatch mixin                                         *)
(***************************************************************************)

DeliveriesOf(t) == { i \in 1..Len(delivered) : delivered[i].task = t }

\* C3: for every dns_query_received(query, requester) whose upstream query
\* returned, send_response_to_requester is called exactly once, with that
\* call's requester and with the response the upstream returned for that
\* call's query; a call whose task has not finished has no delivery, and no
\* delivery goes to another requester.
C3_OneDeliveryToTheRequester ==
    /\ \A i \in 1..Len(delivered) :
          LET d == delivered[i]
              t == tasks[d.task]
          IN  /\ d.requester = t.requester
              /\ t.result # None
              /\ t.result[1].raised = ""
              /\ d.response = t.result[1].wire[1]
              /\ from_wire(d.response).question = from_wire(t.query).question
    /\ \A t \in 1..Len(tasks) :
          /\ Cardinality(DeliveriesOf(t)) <= 1
          /\ (tasks[t].state = "done") <=> (Cardinality(DeliveriesOf(t)) = 1)

\* A query's upstream response has been delivered to its requester.
C3_Witness ==
    \E t \in 1..Len(tasks) :
        /\ tasks[t].state = "done"
        /\ Cardinality(DeliveriesOf(t)) = 1
        /\ Len(tasks) = 2
        /\ tasks[1].requester # tasks[2].requester

RECURSIVE SelectTasks(_, _)
SelectTasks(q, S) ==
    IF q = <<>> THEN <<>>
    ELSE IF Head(q) \in S THEN <<Head(q)>> \o SelectTasks(Tail(q), S)
    ELSE SelectTasks(Tail(q), S)

\* C4: the send_response_to_requester calls occur in the order in which the
\* upstream queries completed, whatever the arrival order; every task whose
\* upstream query is still unanswered can have it answered now, whatever other
\* tasks are in flight, a new query can always be dispatched, and a task that
\* is ready to run is never held back.
C4_CompletionOrder ==
    /\ [i \in 1..Len(delivered) |-> delivered[i].task]
          = SelectTasks(completed, { t \in 1..Len(tasks) : tasks[t].state = "done" })
    /\ \A t \in 1..Len(tasks) :
          tasks[t].state \notin {"resolved", "done", "failed"}
              => ENABLED UpstreamResolves(t, QueryResults(tasks[t].query))
    /\ Len(tasks) < MaxTasks => ENABLED UdpDatagramReceived
    /\ ready # <<>> => ENABLED UdpRunReady

\* A query that arrived later, from the same requester, has been answered
\* while the earlier one is still in flight.
C4_Witness ==
    /\ Len(tasks) >= 2
    /\ tasks[1].requester = tasks[2].requester
    /\ tasks[1].state = "awaiting"
    /\ tasks[2].state = "done"
    /\ Len(delivered) = 1

(***************************************************************************)
(* Properties of the CoAP rendezvous                                        *)
(***************************************************************************)

\* C5: on a fair event loop and with an upstream that answers every query,
\* every CoAP request that entered dispatch eventually returns a response,
\* also when two requests with the same query bytes are in flight together.
C5_EveryRequestReturns ==
    \A h \in 1..MaxRequests :
        (h \in 1..Len(handlers) /\ handlers[h].state = "awaiting")
            ~> (h \in 1..Len(handlers) /\ handlers[h].state = "returned")

\* C6: every slot is fulfilled exactly once: set_result is never called on a
\* slot that is already fulfilled, and once the dispatch task of a request has
\* made its send_response_to_requester call the slot that request's handler
\* awaits is fulfilled.
C6_SlotFulfilledExactlyOnce ==
    /\ \A i \in 1..Len(task_errors) : task_errors[i].exc # "InvalidStateError"
    /\ \A h \in 1..Len(handlers) :
          DeliveriesOf(handlers[h].task) # {} => futures[handlers[h].future].done

\* The slots of a key that are created, not fulfilled and still awaited.
LiveSlots(q) ==
    { handlers[h].future : h \in { x \in 1..Len(handlers) :
          /\ handlers[x].query = Some(q)
          /\ handlers[x].state = "awaiting"
          /\ ~futures[handlers[x].future].done } }

\* C7: there is at most one live slot per query-bytes key, and every handler
\* that awaits a response awaits the slot the map stores under its key, so two
\* requests with the same query bytes await the same slot.
C7_OneLiveSlotPerKey ==
    /\ \A q \in CoapQueries : Cardinality(LiveSlots(q)) <= 1
    /\ \A h \in 1..Len(handlers) :
          (handlers[h].state = "awaiting" /\ ~futures[handlers[h].future].done)
              => handlers[h].future = pending[handlers[h].query[1]]

(***************************************************************************)
(* Properties of the DTLS wrapper                                           *)
(***************************************************************************)

\* C8: whenever handle_message has just returned with its third element
\* true, the peer it handled the message for is a key of active_sessions, so
\* is_connected(peer) holds and a write to that peer is handed to the engine.
C8_ConnectedPeerHasSession ==
    (last_op.op = "handle_message" /\ last_op.ret[3])
        => /\ last_op.arg.addr \in DOMAIN active_sessions
           /\ is_connected(last_op.arg.addr)
           /\ write_target(TupleArg(last_op.arg.addr)) # None

\* handle_message, called with a session object, has reported a newly
\* connected peer.
C8_Witness ==
    /\ last_op.op = "handle_message"
    /\ last_op.ret[3]
    /\ ~last_op.arg.is_tuple
    /\ is_connected(last_op.arg.addr)

\* C9: whenever handle_message has just returned, on any of its paths, both
\* last_app_data and last_event are empty.
C9_SlotsClearedOnReturn ==
    last_op.op = "handle_message" => (app_data = None /\ last_event = None)

\* C10: a write with an address tuple that has no active session does not
\* call the engine's write, sends no datagram and leaves active_sessions as
\* it was; a write with a tuple that has a session, or with a session handle,
\* calls the engine's write once with that session.
C10_WriteNeedsSession ==
    [][ last_op'.op = "write" =>
          /\ active_sessions' = active_sessions
          /\ IF last_op'.arg.is_tuple /\ last_op'.arg.addr \notin DOMAIN active_sessions
             THEN engine_writes' = <<>> /\ sendto' = <<>>
             ELSE /\ Len(engine_writes') = 1
                  /\ engine_writes'[1].session =
                        IF last_op'.arg.is_tuple
                        THEN active_sessions[last_op'.arg.addr]
                        ELSE last_op'.arg.session ]_vars

\* A write to a peer without a session was dropped while another peer has one.
C10_Witness ==
    /\ last_op.op = "write"
    /\ last_op.arg.is_tuple
    /\ last_op.arg.addr \notin DOMAIN active_sessions
    /\ DOMAIN active_sessions # {}
    /\ engine_writes = <<>>

(***************************************************************************)
(* Properties of the server handles                                         *)
(***************************************************************************)

\* C11: whenever the DTLS server dispatches a decrypted query, the requester
\* token of the new task is the address of the peer whose datagram was just
\* handled and is a key of active_sessions, so a response written to it
\* reaches that peer's session; this for 2-tuple and for 4-tuple peer
\* addresses alike.
C11_RequesterIsPeerWithSession ==
    [][ (server = "dtls" /\ Len(tasks') = Len(tasks) + 1) =>
          LET requester == tasks'[Len(tasks')].requester
          IN  /\ requester = server_op'.peer
              /\ requester \in DOMAIN active_sessions' ]_vars

\* C12: for each variant of the server handle, a close() called after a
\* close() has completed raises nothing, makes no transport, session or
\* context call, sends nothing and leaves the server's state as it was.
C12_SecondCloseIsNoOp ==
    [][ ( /\ closes >= 1
          /\ server_op'.op = "close"
          /\ (closes' # closes \/ server_op'.raised # "") ) =>
          /\ server_op'.raised = ""
          /\ io' = <<>> /\ sendto' = <<>> /\ engine_writes' = <<>>
          /\ UNCHANGED <<self_transport, wrapper, request_interfaces>>
          /\ UNCHANGED <<active_sessions, app_data, last_event>>
          /\ UNCHANGED <<dispatchVars, coapVars>> ]_vars

\* A DTLS server with a session was closed, lost its connection and was
\* closed again.
C12_Witness ==
    /\ server = "dtls"
    /\ closes = 2
    /\ wrapper = None
    /\ server_op.op = "close"
    /\ io = <<>>

\* C13: when a UDP or DTLS server has been closed and the upstream response
\* of a query dispatched before the close arrives, the resumed task sends
\* nothing on the transport, writes nothing to a session and ends without an
\* error.
C13_ResponseAfterCloseDiscarded ==
    [][ ( /\ server \in {"udp", "dtls"}
          /\ closes >= 1
          /\ ready # <<>>
          /\ ready' = Tail(ready)
          /\ tasks[Head(ready)].result[1].raised = "" ) =>
          /\ io' = <<>> /\ sendto' = <<>> /\ engine_writes' = <<>>
          /\ task_errors' = task_errors ]_vars

(***************************************************************************)
(* Properties of the CoAP resource's request handling                      *)
(***************************************************************************)

\* The handlers that have given their client a response
Answered == { h \in 1..Len(handlers) : handlers[h].state = "returned" }

\* The Accept option of a request is present and is not the DNS message
\* format.
AcceptDiffers(request) ==
    request.accept # None /\ request.accept # Some(CONTENT_FORMAT_DNS_MESSAGE)

\* The code of the response handler h gave
CodeOf(h) == handlers[h].response[1].code[1]

C15_UnsupportedContentFormat ==
    \A h \in 1..Len(handlers) :
        ( /\ handlers[h].request.method \in {"POST", "FETCH"}
          /\ handlers[h].request.content_format # Some(CONTENT_FORMAT_DNS_MESSAGE) ) =>
            /\ handlers[h].state = "returned"
            /\ CodeOf(h) = "4.15"
            /\ handlers[h].query = None
            /\ handlers[h].task = 0
            /\ Len(tasks) = Cardinality({ x \in 1..Len(handlers) : handlers[x].task # 0 })

\* A POST request without Content-Format and a FETCH request with text/plain
\* have both been seen and answered with 4.15.
C15_Witness ==
    \E h \in Answered :
        /\ handlers[h].request.method = "POST"
        /\ handlers[h].request.content_format = None
        /\ handlers[h].request.payload \in CoapQueries
        /\ CodeOf(h) = "4.15"
        /\ tasks = <<>>

\* The name of a URI query parameter: what precedes its first "=".
ParamName(param) == split(param, "=")[1]

\* C16: every GET request whose URI query has no parameter named dns has
\* been answered with 4.00, whatever its other parameters are.
C16_GetWithoutDnsIsBadRequest ==
    \A h \in 1..Len(handlers) :
        ( /\ handlers[h].request.method = "GET"
          /\ \A k \in 1..Len(handlers[h].request.uri_query) :
                 ParamName(handlers[h].request.uri_query[k]) # "dns" ) =>
            /\ handlers[h].state = "returned"
            /\ CodeOf(h) = "4.00"

\* The handlers whose response carries a success code
Succeeded == { h \in Answered : CodeOf(h) \in {"2.04", "2.05"} }

\* C17: the response of every successfully handled request has as payload the
\* response a dispatch task for that request's query passed on from the
\* upstream, has Content-Format 553, and has the code 2.04 for POST and 2.05
\* for GET and FETCH.
C17_SuccessResponse ==
    /\ \A h \in Answered :
          (handlers[h].query # None /\ ~AcceptDiffers(handlers[h].request))
              => h \in Succeeded
    /\ \A h \in Succeeded :
          /\ \E k \in 1..Len(delivered) :
                /\ tasks[delivered[k].task].query = handlers[h].query[1]
                /\ tasks[delivered[k].task].result[1].raised = ""
                /\ handlers[h].response[1].payload
                       = tasks[delivered[k].task].result[1].wire[1]
          /\ handlers[h].response[1].content_format = Some(CONTENT_FORMAT_DNS_MESSAGE)
          /\ CodeOf(h) = (IF handlers[h].request.method = "POST" THEN "2.04" ELSE "2.05")

\* A GET whose dns parameter followed another parameter has been answered
\* 2.05 with the upstream's answer to the query it encoded.
C17_Witness ==
    \E h \in Succeeded :
        /\ handlers[h].request.method = "GET"
        /\ Len(handlers[h].request.uri_query) = 2
        /\ from_wire(handlers[h].response[1].payload).answer # <<>>
        /\ from_wire(handlers[h].response[1].payload).id
               = from_wire(handlers[h].query[1]).id

(***************************************************************************)
(* Properties of the factories                                             *)
(***************************************************************************)

\* The keys whose absence the factories report
CredentialKeys == {"client_identity", "psk"}

\* The credential keys the configuration does not hold
MissingKeys ==
    IF "dtls_credentials" \notin DOMAIN config THEN CredentialKeys
    ELSE CredentialKeys \ DOMAIN config["dtls_credentials"]

\* C18: a create_server of the DTLS or the CoAP factory made while
\* dtls_credentials.client_identity or dtls_credentials.psk is missing from
\* the configuration raises a RuntimeError and returns no handle; its message
\* names the dtls_credentials section when that is missing altogether, and
\* otherwise a credential key that is missing.
C18_MissingCredentialRaises ==
    [][ (created' # created /\ MissingKeys # {}) =>
           /\ created'[1].kind \in {"dtls", "coap"}
           /\ created'[1].raised = "RuntimeError"
           /\ created'[1].handle = None
           /\ \E key \in (IF "dtls_credentials" \in DOMAIN config
                          THEN MissingKeys ELSE {"dtls_credentials"}) :
                 created'[1].message
                     = "DTLS credential option '" \o key \o "' not found" ]_vars

(***************************************************************************)
(* Properties of the synthesized SERVFAIL                                  *)
(***************************************************************************)

\* The lifetime of a query() call: its timeout argument, DEFAULT_LIFETIME
\* without one.
LifetimeOf(timeout) == IF timeout = None THEN DEFAULT_LIFETIME ELSE timeout[1]

\* C19: on the UDP transport, when the time elapsed since the start of
\* query() has reached the lifetime as the first attempt is about to be made,
\* query() returns a SERVFAIL response with the query's question section.
C19_LifetimeReachedGivesServfail ==
    ( /\ uq.pc = "done"
      /\ uq.transport = "UDP"
      /\ uq.clocks[1] - uq.start >= LifetimeOf(uq.timeout) ) =>
        /\ uq.out.raised = ""
        /\ from_wire(uq.out.wire[1]).rcode = SERVFAIL
        /\ from_wire(uq.out.wire[1]).question = from_wire(uq.wire).question

\* query() returned the response it made itself after the library call failed.
SynthesizedServfail ==
    /\ uq.pc = "done"
    /\ uq.out.raised = ""
    /\ Len(uq.out.sent) > 0
    /\ uq.attempts[1].kind # "answer"

\* C20: every SERVFAIL response query() synthesizes has rcode 2, has QR, RD
\* and RA set and has the query's question section, whether or not the query
\* had RD set.
C20_ServfailFlags ==
    SynthesizedServfail =>
        LET resp == from_wire(uq.out.wire[1])
        IN  /\ resp.rcode = SERVFAIL
            /\ resp.qr /\ resp.rd /\ resp.ra
            /\ resp.question = from_wire(uq.wire).question

(***************************************************************************)
(* Properties of MockDNSUpstream and of DNSUpstream's construction         *)
(***************************************************************************)

\* A question the mock upstream has a record for
MockMatches(question) ==
    /\ question.rdclass = "IN"
    /\ question.rdtype \in {"A", "AAAA"} \cap DOMAIN mock._IN

\* C21: MockDNSUpstream.query raises nothing and hands no message to the
\* network; the answer section of its response holds, in the order of the
\* questions, one rrset for each question of class IN and type A or AAAA
\* whose record is configured, with the question's name, TTL 300 and the
\* configured address as its only rdata, and nothing else.
C21_MockAnswers ==
    mock.pc = "done" =>
        LET qry == from_wire(mock.wire)
            resp == from_wire(mock.out.wire[1])
            matching == SelectSeq(qry.question, MockMatches)
        IN  /\ mock.out.raised = ""
            /\ mock.out.sent = <<>>
            /\ resp.id = qry.id /\ resp.qr
            /\ resp.question = qry.question
            /\ Len(resp.answer) = Len(matching)
            /\ \A k \in 1..Len(matching) :
                  resp.answer[k] = [name |-> matching[k].name, ttl |-> 300,
                                    rdclass |-> "IN", rdtype |-> matching[k].rdtype,
                                    rdata |-> <<mock._IN[matching[k].rdtype]>>]

\* A query with a CHAOS-class A question and an IN-class AAAA question was
\* answered by a mock with both records: one rrset, for the second question.
C21_Witness ==
    /\ mock.pc = "done"
    /\ DOMAIN mock._IN = {"A", "AAAA"}
    /\ Len(from_wire(mock.wire).question) = 2
    /\ from_wire(mock.wire).question[1].rdclass = "CH"
    /\ from_wire(mock.wire).question[1].rdtype = "A"
    /\ from_wire(mock.wire).question[2].rdclass = "IN"
    /\ from_wire(mock.wire).question[2].rdtype = "AAAA"
    /\ Len(from_wire(mock.out.wire[1]).answer) = 1

\* C24: DNSUpstream(...) with a transport that is none of UDP,
\* UDP_TCP_FALLBACK and TCP raises ValueError and yields no object, whether
\* the port is omitted or given.
C24_UnknownTransportIsValueError ==
    (built # None /\ built[1].transport \notin DNSTransport) =>
        /\ built[1].out.raised = "ValueError"
        /\ built[1].out.object = None

(***************************************************************************)
(* Properties of the configuration singleton                               *)
(***************************************************************************)

\* C22: every Config() call yields the same instance: all references callers
\* hold are to one object, the one a call made now would return, so each
\* shows the same sections, those added before and after it was obtained.
C22_OneConfigInstance ==
    /\ Len(objects) <= 1
    /\ \A r \in 1..Len(refs) :
          /\ "Config" \in DOMAIN instances
          /\ refs[r].object = instances["Config"]
          /\ objects[refs[r].object] = config
          /\ \A q \in 1..Len(refs) : objects[refs[q].object] = objects[refs[r].object]

\* Two references, the first obtained while the configuration was empty, the
\* second after a section was added, and a further section added since: both
\* show the same sections.
C22_Witness ==
    /\ Len(refs) = 2
    /\ refs[1].seen = {}
    /\ refs[2].seen = {"dtls"}
    /\ DOMAIN objects[refs[1].object] = {"dtls", "transports"}
    /\ objects[refs[1].object] = objects[refs[2].object]

(***************************************************************************)
(* Properties of main()                                                    *)
(***************************************************************************)

\* main() has ended with one of the failures of the command line.
MainValueError == main.pc = "done" /\ main.raised = "ValueError"
MainNoConfig ==
    /\ main.pc = "done"
    /\ main.raised = "RuntimeError"
    /\ main.message \in {"No upstream DNS server provided", "No proxy config provided"}

\* C23: when main() fails with the ValueError of too many positional values
\* or with the RuntimeError of a configuration without upstream or without
\* transports, no create_server was called and servers holds nothing; after
\* the ValueError the configuration singleton is still empty.
C23_FailedMainStartsNothing ==
    /\ (MainValueError \/ MainNoConfig) => servers = <<>> /\ main.calls = <<>>
    /\ MainValueError =>
          /\ config = EmptyDict
          /\ \A i \in 1..Len(objects) : objects[i] = EmptyDict

\* main() failed with the ValueError of a third value for -u, after an
\* upstream option had been parsed.
C23_Witness ==
    /\ MainValueError
    /\ Len(main.argv) = 2
    /\ main.argv[1].opt = "-U" /\ Len(main.argv[1].values) = 1
    /\ main.argv[2].opt = "-u" /\ Len(main.argv[2].values) = 3

(***************************************************************************)
(* Properties of the CoAP resource's pending-response map                  *)
(***************************************************************************)

\* C25: whenever every CoAP request made has been answered, none being in
\* flight, the pending-response map is empty; the keys of fulfilled requests
\* are removed.
C25_MapEmptyWhenIdle ==
    (\A h \in 1..Len(handlers) : handlers[h].state = "returned")
        => pending = EmptyDict

\* C26: a request answered with 4.00, 4.15 or 4.06 inserted no slot into the
\* pending-response map and caused no dispatch task, hence no upstream
\* query.
C26_RejectedNeverDispatched ==
    \A h \in Answered :
        CodeOf(h) \in {"4.00", "4.15", "4.06"}
            => /\ handlers[h].query = None
               /\ handlers[h].future = 0
               /\ handlers[h].task = 0

\* C27: no dispatch task of the CoAP resource fails the assertion of
\* send_response_to_requester: the requester of every task is a key of the
\* pending-response map, from the task's creation on.
C27_RequesterPending ==
    /\ \A t \in 1..Len(tasks) : tasks[t].requester \in DOMAIN pending
    /\ \A e \in 1..Len(task_errors) : task_errors[e].exc # "AssertionError"

\* Two requests with the same query were in flight together and both their
\* tasks have called send_response_to_requester.
C27_Witness ==
    \E g, h \in 1..Len(handlers) :
        /\ g < h
        /\ handlers[g].query = handlers[h].query
        /\ Len(delivered) >= 2
        /\ \E i, j \in 1..Len(delivered) :
              /\ i # j
              /\ delivered[i].requester = handlers[g].query[1]
              /\ delivered[j].requester = handlers[g].query[1]
        /\ tasks[handlers[g].task].state \in {"done", "failed"}
        /\ tasks[handlers[h].task].state \in {"done", "failed"}

(***************************************************************************)
(* Properties of the DTLS wrapper's and server's handling of datagrams     *)
(***************************************************************************)

\* The step is a datagram_received of the DTLS server.
DatagramStep ==
    /\ server = "dtls"
    /\ server_op'.op = "datagram_received"
    /\ ready' = ready

\* C28: a datagram for which the engine returns a negative value is dropped:
\* its datagram_received raises nothing, dispatches no query and leaves
\* active_sessions as it was, and nothing of it is dispatched later either,
\* so that a query dispatched by a datagram_received was decrypted from the
\* datagram being processed, which the engine did not reject.
C28_NegativeReturnDropsDatagram ==
    [][DatagramStep =>
          /\ server_op'.engine.ret < 0 =>
                /\ server_op'.raised = ""
                /\ tasks' = tasks
                /\ active_sessions' = active_sessions
          /\ Len(tasks') > Len(tasks) =>
                /\ server_op'.engine.ret >= 0
                /\ server_op'.engine.read = Some(tasks'[Len(tasks')].query)]_vars

\* C29: handle_message reports newly_connected only when the engine raised
\* EVENT_CONNECTED during that invocation for a peer without an entry in
\* active_sessions; when the engine raises EVENT_CONNECTED for a peer that has
\* an entry, false is reported and the entry is left as it is.
C29_NewlyConnectedOnlyOnEvent ==
    [][last_op'.op = "handle_message" =>
          LET addr == last_op'.arg.addr
          IN  /\ last_op'.ret[3] =>
                    /\ last_op'.engine.event = Some(EVENT_CONNECTED)
                    /\ addr \notin DOMAIN active_sessions
              /\ (last_op'.engine.event = Some(EVENT_CONNECTED)
                    /\ addr \in DOMAIN active_sessions) =>
                    /\ ~last_op'.ret[3]
                    /\ active_sessions'[addr] = active_sessions[addr]]_vars

UdpCallDone == uq.pc = "done" /\ uq.transport = "UDP"
Elapsed == uq.clocks[1] - uq.start

\* C31: on the UDP transport, when 0 <= elapsed < lifetime, the lifetime
\* being the timeout argument or DEFAULT_LIFETIME without one, the timeout
\* computed for the attempt is min(lifetime - elapsed, DEFAULT_TIMEOUT): it is
\* positive and exceeds neither DEFAULT_TIMEOUT nor the remaining lifetime.
C31_TimeoutIsMinOfRemaining ==
    (UdpCallDone /\ 0 <= Elapsed /\ Elapsed < LifetimeOf(uq.timeout)) =>
        /\ Len(uq.out.per_attempt) = 1
        /\ uq.out.per_attempt[1] = Min(LifetimeOf(uq.timeout) - Elapsed, DEFAULT_TIMEOUT)
        /\ uq.out.per_attempt[1] > 0
        /\ uq.out.per_attempt[1] <= DEFAULT_TIMEOUT
        /\ uq.out.per_attempt[1] <= LifetimeOf(uq.timeout) - Elapsed

\* A UDP attempt was made with less than DEFAULT_TIMEOUT left of the lifetime.
C31_Witness ==
    /\ UdpCallDone
    /\ uq.timeout = Some(6)
    /\ Elapsed = 5
    /\ uq.out.per_attempt = <<1>>

\* C32: when the clock reads earlier than the start by at most a second, the
\* elapsed time counts as zero: the timeout of the attempt is
\* min(lifetime, DEFAULT_TIMEOUT), not more than the lifetime, and with a
\* lifetime of zero a timeout is raised; when the clock reads earlier by more
\* than a second, a timeout is raised.
C32_SmallBackwardStepClamped ==
    /\ (UdpCallDone /\ -1 <= Elapsed /\ Elapsed < 0) =>
          IF LifetimeOf(uq.timeout) > 0
          THEN /\ uq.out.per_attempt = <<Min(LifetimeOf(uq.timeout), DEFAULT_TIMEOUT)>>
               /\ uq.out.per_attempt[1] <= LifetimeOf(uq.timeout)
          ELSE uq.out.raised = "Timeout"
    /\ (UdpCallDone /\ Elapsed < -1) =>
          uq.out.raised = "Timeout" /\ uq.out.sent = <<>>

\* The id of the query as the caller gave it
CallerId == from_wire(uq.wire).id

\* C33: every message query() hands to the upstream transport carries the
\* query's id when that is not 0 and the value drawn from random_16() when it
\* is 0, and a SERVFAIL query() synthesizes carries the id that went out on
\* the wire.
C33_OnWireId ==
    uq.pc = "done" =>
        /\ \A i \in 1..Len(uq.out.sent) :
              uq.out.sent[i].id = IF CallerId # 0 THEN CallerId ELSE uq.rnd
        /\ SynthesizedServfail =>
              from_wire(uq.out.wire[1]).id = uq.out.sent[1].id

\* A query with id 0 went out with the drawn id, the attempt failed and the
\* SERVFAIL came back with that id.
C33_Witness ==
    /\ SynthesizedServfail
    /\ CallerId = 0
    /\ uq.rnd # 0
    /\ uq.out.sent[1].id = uq.rnd
    /\ from_wire(uq.out.wire[1]).rcode = SERVFAIL

\* C34: a query() call on the UDP transport makes at most one upstream query:
\* the loop is left after the first attempt, which gave the response returned
\* or, failing with a DNS exception, a SERVFAIL, whatever a further attempt
\* within the lifetime would have given.
C34_OneUdpAttempt ==
    UdpCallDone =>
        /\ Len(uq.out.sent) <= 1
        /\ Len(uq.out.per_attempt) = Len(uq.out.sent)
        /\ (Len(uq.out.sent) = 1 /\ uq.attempts[1].kind = "DNSException") =>
              /\ uq.out.raised = ""
              /\ from_wire(uq.out.wire[1]).rcode = SERVFAIL
        /\ (Len(uq.out.sent) = 1 /\ uq.attempts[1].kind = "answer") =>
              /\ uq.out.raised = ""
              /\ from_wire(uq.out.wire[1]).rcode = NOERROR

\* The first attempt failed with time left of the lifetime and an upstream
\* that would have answered a second attempt; SERVFAIL was returned.
C34_Witness ==
    /\ UdpCallDone
    /\ Len(uq.attempts) = 2
    /\ uq.attempts[1].kind = "DNSException"
    /\ uq.attempts[2].kind = "answer"
    /\ uq.timeout = None /\ Elapsed = 0
    /\ Len(uq.out.sent) = 1
    /\ from_wire(uq.out.wire[1]).rcode = SERVFAIL

(***************************************************************************)
(* Properties of the write callback                                        *)
(***************************************************************************)

\* The delay the configuration of the latest callback gives, if any.
WrDelay == server_hello_done_delay(written.sections)

\* C35: the callback sends every record exactly once to the given address and
\* reports its full length; it sleeps before sending exactly for a
\* ServerHelloDone record (content type 22, octet 14 at offset 13) under a
\* positive delay, and never for another record or when the delay is absent,
\* zero or negative.
C35_RecordSentOnceDelayOnlyHelloDone ==
    written.pc = "done" =>
        /\ written.out.raised = None
        /\ written.out.sendto = << [data |-> written.data, addr |-> written.addr \o <<0, 0>>] >>
        /\ written.out.ret = Some(Len(written.data))
        /\ written.out.slept # <<>> <=>
              /\ Len(written.data) > 13 /\ written.data[1] = 22 /\ written.data[14] = 14
              /\ WrDelay # None /\ WrDelay[1] > 0

\* The part of C35 that holds: unless the record is a ServerHelloDone under a
\* negative delay, it is sent once, its length is reported and the sleep is
\* made exactly for a ServerHelloDone under a positive delay.
C35_HoldsUnlessNegativeDelay ==
    (/\ written.pc = "done"
     /\ ~(is_server_hello_done(written.data) /\ WrDelay # None /\ WrDelay[1] < 0)) =>
        /\ written.out.raised = None
        /\ written.out.sendto = << [data |-> written.data, addr |-> written.addr \o <<0, 0>>] >>
        /\ written.out.ret = Some(Len(written.data))
        /\ written.out.slept # <<>> <=>
              /\ Len(written.data) > 13 /\ written.data[1] = 22 /\ written.data[14] = 14
              /\ WrDelay # None /\ WrDelay[1] > 0

(***************************************************************************)
(* Properties of the decoding of the dns parameter                         *)
(***************************************************************************)

\* The smallest multiple of 4 that is not less than n.
NextMultipleOf4(n) == ((n + 3) \div 4) * 4

Called(op) == last_op'.op = op

SendsOf(t) == { k \in 1..Len(delivered) : delivered[k].task = t }

\* Task t ran to its end after its upstream query returned a response.
RanWithResponse(t) ==
    /\ tasks[t].state \in {"done", "failed"}
    /\ tasks[t].result # None
    /\ tasks[t].result[1].raised = ""

C39_ServersShareFactoryUpstream ==
    main.pc = "done" =>
        /\ \A i \in 1..Len(main.calls) : main.calls[i].raised # "AttributeError"
        /\ \A i, j \in 1..Len(main.calls) :
              (main.calls[i].raised = "" /\ main.calls[j].raised = "")
                 => main.calls[i].handle[1].dns_upstream
                      = main.calls[j].handle[1].dns_upstream

(***************************************************************************)
(* Properties of close_servers                                             *)
(***************************************************************************)

\* How many times close() has returned for the server.
TimesClosed(srv) ==
    Cardinality({ k \in 1..Len(shutdown.closed) : shutdown.closed[k] = srv })

\* The server is in the process-wide list.
Listed(srv) == \E k \in 1..Len(servers) : servers[k] = srv

\* C40: when close_servers() has returned, close() has returned exactly once
\* for every server the list held when it was called, for no other, and the
\* list is empty; while it runs, a server that is no longer in the list is
\* one whose close() has returned.
C40_AllClosedOnceThenRemoved ==
    /\ shutdown.pc = "done" =>
          /\ servers = <<>>
          /\ \A k \in 1..Len(shutdown.registered) :
                TimesClosed(shutdown.registered[k]) = 1
          /\ Len(shutdown.closed) = Len(shutdown.registered)
    /\ shutdown.pc \in {"iterating", "closed", "raised", "done"} =>
          \A k \in 1..Len(shutdown.registered) :
             /\ ~Listed(shutdown.registered[k])
                   => TimesClosed(shutdown.registered[k]) = 1
             /\ TimesClosed(shutdown.registered[k]) <= 1
    /\ shutdown.pc # "raised"

\* close_servers() has returned after three servers had been registered.
C40_Witness ==
    /\ shutdown.pc = "done"
    /\ Len(shutdown.registered) = 3
    /\ Len(shutdown.closed) = 3
    /\ servers = <<>>


============================================================================
